---- MODULE Spec2Model ----
(***************************************************************************)
(* The content-generation pipeline of notion_agent:                        *)
(*   preprocessing.call_preprocessing_agent      (stage 1, splitter)       *)
(*   rich_text_llm.create_formatted_rich_text_array (stage 2, annotator)   *)
(*   block_agent.call_block_agent_with_rich_text (stage 3, synthesizer)    *)
(*   block_tool.create_unified_tool_func         (stage 4, store adapter)  *)
(*   main.test_block_creation / test_complete_pipeline (entry points)      *)
(*                                                                         *)
(* Texts are sequences of lexemes.  A Python str held in a result is a     *)
(* sequence of characters; an oracle's raw answer is a sequence of tokens  *)
(* (punctuation, literals, whitespace, code fences, prose), which the      *)
(* model cleans and parses the way the code does.                          *)
(***************************************************************************)
EXTENDS Integers, Sequences, FiniteSets, TLC

\* ------------------------------------------------------------------ bounds
\* Longest array an oracle is let to answer with.
MaxSegs == 2
\* Most tool calls the agent oracle is let to request in one run.
MaxSteps == 2
\* Largest table width and height a caller is let to ask for.
MaxDim == 2

\* ------------------------------------------------------- Python str values
IsSpace(c) == c \in {" ", "\n"}

RECURSIVE LStrip(_)
LStrip(s) == IF s # <<>> /\ IsSpace(Head(s)) THEN LStrip(Tail(s)) ELSE s

RECURSIVE RStrip(_)
RStrip(s) == IF s # <<>> /\ IsSpace(s[Len(s)]) THEN RStrip(SubSeq(s, 1, Len(s) - 1)) ELSE s

\* A strip that leaves its argument as it is.
StrStrip_Keep(s) == s

\* str.strip()
StrStrip(s) == RStrip(LStrip(s))

\* ------------------------------------------------------- JSON / Python values
\* Every value is [t, v]: t its Python type after json.loads.
Str(s) == [t |-> "str", v |-> s]
Num(n) == [t |-> "num", v |-> n]
Null == [t |-> "null", v |-> 0]
Arr(items) == [t |-> "arr", v |-> items]
\* A dict: a sequence of <<key, value>> in insertion order, keys unique.
Obj(members) == [t |-> "obj", v |-> members]

PlainAnnotations ==
    [bold |-> FALSE, italic |-> FALSE, strikethrough |-> FALSE,
     underline |-> FALSE, code |-> FALSE, color |-> "default"]
\* {"type": "text", "text": {"content": c}} with no "annotations" key.
NoAnnotations == [absent |-> TRUE]
\* A dict of rich-text shape: {"type": "text", "text": {"content": c}, "annotations": a}.
Seg(c, a) == [t |-> "seg", v |-> [content |-> c, annotations |-> a]]

IsDict(x) == x.t \in {"obj", "seg"}

HasKey(o, k) == \E i \in 1..Len(o.v) : o.v[i][1] = k
Get(o, k) == o.v[CHOOSE i \in 1..Len(o.v) : o.v[i][1] = k][2]
\* dict[k] = x
Put(members, k, x) ==
    IF \E i \in 1..Len(members) : members[i][1] = k
    THEN [i \in 1..Len(members) |-> IF members[i][1] = k THEN <<k, x>> ELSE members[i]]
    ELSE Append(members, <<k, x>>)

\* ------------------------------------------------------------------ tokens
P(c) == <<"p", c>>
Lit(x) == <<"lit", x>>
\* a member key with its colon
Key(k) == <<"key", k>>
Fence == <<"fence", "fence3">>
\* a fence info-string, [a-zA-Z0-9_-]+
Lang(l) == <<"lang", l>>
NL == <<"ws", "\n">>
SP == <<"ws", " ">>
Prose == <<"prose", "text">>

IsWs(tk) == tk[1] = "ws"
IsP(tk, c) == tk[1] = "p" /\ tk[2] = c

RECURSIVE TLStrip(_)
TLStrip(s) == IF s # <<>> /\ IsWs(Head(s)) THEN TLStrip(Tail(s)) ELSE s

RECURSIVE TRStrip(_)
TRStrip(s) == IF s # <<>> /\ IsWs(s[Len(s)]) THEN TRStrip(SubSeq(s, 1, Len(s) - 1)) ELSE s

\* str.strip() of a raw answer
TokStrip(s) == TRStrip(TLStrip(s))

\* ------------------------------------------------------------ json.loads
Fail == [ok |-> FALSE, val |-> Null, next |-> 0]

RECURSIVE SkipWs(_, _)
SkipWs(toks, i) == IF i <= Len(toks) /\ IsWs(toks[i]) THEN SkipWs(toks, i + 1) ELSE i

\* The one element of a singleton.
Only(S) == CHOOSE x \in S : TRUE

RECURSIVE ParseValue(_, _)
RECURSIVE ParseItems(_, _, _)
RECURSIVE AfterItem(_, _, _)
RECURSIVE ParseMembers(_, _, _)
RECURSIVE AfterMember(_, _, _, _)

ParseValue(toks, i) ==
    LET j == SkipWs(toks, i) IN
    IF j > Len(toks) THEN Fail
    ELSE IF toks[j][1] = "lit" THEN [ok |-> TRUE, val |-> toks[j][2], next |-> j + 1]
    ELSE IF IsP(toks[j], "[") THEN
        LET k == SkipWs(toks, j + 1) IN
        IF k <= Len(toks) /\ IsP(toks[k], "]")
        THEN [ok |-> TRUE, val |-> Arr(<<>>), next |-> k + 1]
        ELSE ParseItems(toks, k, <<>>)
    ELSE IF IsP(toks[j], "{") THEN
        LET k == SkipWs(toks, j + 1) IN
        IF k <= Len(toks) /\ IsP(toks[k], "}")
        THEN [ok |-> TRUE, val |-> Obj(<<>>), next |-> k + 1]
        ELSE ParseMembers(toks, k, <<>>)
    ELSE Fail

\* a value at i, then "," and more, or "]"
ParseItems(toks, i, acc) == Only({AfterItem(toks, r, acc) : r \in {ParseValue(toks, i)}})
AfterItem(toks, r, acc) ==
    IF ~r.ok THEN Fail
    ELSE LET k == SkipWs(toks, r.next) IN
         IF k > Len(toks) THEN Fail
         ELSE IF IsP(toks[k], "]")
              THEN [ok |-> TRUE, val |-> Arr(Append(acc, r.val)), next |-> k + 1]
         ELSE IF IsP(toks[k], ",") THEN ParseItems(toks, k + 1, Append(acc, r.val))
         ELSE Fail

\* a key at i, its value, then "," and more, or "}"
ParseMembers(toks, i, acc) ==
    LET j == SkipWs(toks, i) IN
    IF j > Len(toks) \/ toks[j][1] # "key" THEN Fail
    ELSE Only({AfterMember(toks, toks[j][2], r, acc) : r \in {ParseValue(toks, j + 1)}})
AfterMember(toks, key, r, acc) ==
    IF ~r.ok THEN Fail
    ELSE LET k == SkipWs(toks, r.next) IN
         IF k > Len(toks) THEN Fail
         ELSE IF IsP(toks[k], "}")
              THEN [ok |-> TRUE, val |-> Obj(Put(acc, key, r.val)), next |-> k + 1]
         ELSE IF IsP(toks[k], ",") THEN ParseMembers(toks, k + 1, Put(acc, key, r.val))
         ELSE Fail

\* json.loads(text): one value, then nothing but whitespace
JsonLoads(toks) ==
    Only({IF r.ok /\ SkipWs(toks, r.next) > Len(toks)
          THEN [ok |-> TRUE, val |-> r.val]
          ELSE [ok |-> FALSE, val |-> Null] : r \in {ParseValue(toks, 1)}})

\* re.sub of an opening fence line: three backticks, an optional info-string, a newline
DropOpeningFence(s) ==
    IF Len(s) >= 3 /\ s[1] = Fence /\ s[2][1] = "lang" /\ s[3] = NL THEN SubSeq(s, 4, Len(s))
    ELSE IF Len(s) >= 2 /\ s[1] = Fence /\ s[2] = NL THEN SubSeq(s, 3, Len(s))
    ELSE s

\* re.sub of a closing fence: a newline and three backticks at the end
DropClosingFence(s) ==
    IF Len(s) >= 2 /\ s[Len(s)] = Fence /\ s[Len(s) - 1] = NL
    THEN SubSeq(s, 1, Len(s) - 2)
    ELSE s

_strip_code_fences(text) ==
    LET cleaned == TokStrip(text) IN
    TokStrip(IF cleaned # <<>> /\ cleaned[1] = Fence
             THEN DropClosingFence(DropOpeningFence(cleaned))
             ELSE cleaned)


\* ------------------------------------------------------- what an oracle writes
SeqsUpTo(S, n) == UNION {[1..k -> S] : k \in 0..n}

\* json.dumps, as the oracle writes a value out
RECURSIVE Ser(_)
RECURSIVE SerItems(_)
RECURSIVE SerMembers(_)
Ser(x) ==
    IF x.t = "arr" THEN <<P("[")>> \o SerItems(x.v) \o <<P("]")>>
    ELSE IF x.t = "obj" THEN <<P("{")>> \o SerMembers(x.v) \o <<P("}")>>
    ELSE <<Lit(x)>>
SerItems(items) ==
    IF items = <<>> THEN <<>>
    ELSE IF Len(items) = 1 THEN Ser(items[1])
    ELSE Ser(items[1]) \o <<P(","), SP>> \o SerItems(Tail(items))
SerMembers(members) ==
    IF members = <<>> THEN <<>>
    ELSE IF Len(members) = 1 THEN <<Key(members[1][1]), SP>> \o Ser(members[1][2])
    ELSE <<Key(members[1][1]), SP>> \o Ser(members[1][2]) \o <<P(","), NL>>
         \o SerMembers(Tail(members))

\* The ways an oracle dresses its answer.  The first four are JSON once cleaned.
CleanWraps == {"bare", "padded", "fenced", "fenced_nolang"}
BrokenWraps == {"fence_inline", "prose_before", "truncated"}
Wraps == CleanWraps \cup BrokenWraps

Wrap(w, body) ==
    CASE w = "bare" -> body
      [] w = "padded" -> <<SP, NL>> \o body \o <<NL>>
      [] w = "fenced" -> <<Fence, Lang("json"), NL>> \o body \o <<NL, Fence>>
      [] w = "fenced_nolang" -> <<NL, Fence, NL>> \o body \o <<NL, Fence, SP>>
      [] w = "fence_inline" -> <<Fence>> \o body \o <<Fence>>
      [] w = "prose_before" -> <<Prose, NL>> \o body
      [] w = "truncated" -> SubSeq(body, 1, Len(body) - 1)

\* An oracle call: it raises, or answers `answer` dressed as `wrap`.
Raises == [kind |-> "raise", wrap |-> "bare", answer |-> Null, text |-> <<>>]
Answers(w, x) == [kind |-> "text", wrap |-> w, answer |-> x, text |-> Wrap(w, Ser(x))]

\* ChatOpenAI(...): the client is built, or its constructor raises.
ClientOutcomes == {"ok", "raise"}

\* str(e) of the exceptions the stages meet
ErrClient == "client construction failed"
ErrOracle == "oracle call failed"
ErrJson == "JSONDecodeError"
ErrAttribute == "AttributeError"
ErrType == "TypeError"

\* ------------------------------------------------- stage 2: the span annotator
BoldRed ==
    [bold |-> TRUE, italic |-> FALSE, strikethrough |-> FALSE,
     underline |-> FALSE, code |-> FALSE, color |-> "red"]

RtResult(success, arr, message, fallback, detail) ==
    [success |-> success, rich_text_array |-> arr, message |-> message,
     segments_count |-> Len(arr), fallback |-> fallback, error |-> detail]

\* rich_text_llm.py 23-40: the blank-instructions result
PlainResult(result_text) ==
    RtResult(TRUE, <<Seg(result_text, PlainAnnotations)>>,
             "Plain text without formatting created.", FALSE, "")

\* The except branch reporting a hard failure, as its inner except does.
FallbackResult_HardFail(result_text, e) ==
    RtResult(FALSE, <<>>, "Critical error in rich text formatting", FALSE, e)

\* The except branch returning the plain segment without the fallback tag.
FallbackResult_Untagged(result_text, e) ==
    RtResult(TRUE, <<Seg(result_text, PlainAnnotations)>>,
             "Formatting failed, returned plain text.", FALSE, e)

\* rich_text_llm.py 208-232: the except branch.  Its own inner except (233-238) is
\* reached only if building this dict raises, which no input makes it do.
FallbackResult(result_text, e) ==
    RtResult(TRUE, <<Seg(result_text, PlainAnnotations)>>,
             "Formatting failed, returned plain text.", TRUE, e)

\* rich_text_llm.py 199-206
FormattedResult(arr) ==
    RtResult(TRUE, arr, "Formatted rich text array created.", FALSE, "")

\* create_formatted_rich_text_array(format_instructions, result_text), with what the
\* client constructor and the oracle do.  [value, invoked]: the dict returned and
\* whether llm.invoke was reached.  Lines 188-193 clean the answer inline, with the
\* statements of preprocessing._strip_code_fences.
create_formatted_rich_text_array(format_instructions, result_text, client, resp) ==
    IF format_instructions.t # "str"
    THEN [value |-> FallbackResult(result_text, ErrAttribute), invoked |-> FALSE]
    ELSE IF StrStrip(format_instructions.v) = <<>>
    THEN [value |-> PlainResult(result_text), invoked |-> FALSE]
    ELSE IF client = "raise"
    THEN [value |-> FallbackResult(result_text, ErrClient), invoked |-> FALSE]
    ELSE IF resp.kind = "raise"
    THEN [value |-> FallbackResult(result_text, ErrOracle), invoked |-> TRUE]
    ELSE LET parsed == JsonLoads(_strip_code_fences(resp.text)) IN
         IF ~parsed.ok
         THEN [value |-> FallbackResult(result_text, ErrJson), invoked |-> TRUE]
         ELSE IF parsed.val.t # "arr"
         THEN [value |-> FallbackResult(result_text, "Invalid response format - expected array"),
               invoked |-> TRUE]
         ELSE [value |-> FormattedResult(parsed.val.v), invoked |-> TRUE]

\* What the annotation oracle may put in its array, and what it may answer.
AnnItems ==
    {Seg(<<"a">>, PlainAnnotations), Seg(<<"b">>, BoldRed),
     Seg(<<"a", "b">>, BoldRed), Num(1)}
AnnAnswers ==
    {Arr(s) : s \in SeqsUpTo(AnnItems, MaxSegs)}
    \cup {Obj(<<>>), Obj(<<<<"rich_text_array", Arr(<<>>)>>>>), Num(1), Str(<<"a">>)}
AnnResponses == {Raises} \cup {Answers(w, x) : w \in Wraps, x \in AnnAnswers}

\* The arguments stage 2 is called with.
FormatInstructions == {Str(<<>>), Str(<<" ", "\n">>), Str(<<" ", "b">>), Num(1)}
ResultTexts == {<<>>, <<"a">>, <<"a", "b">>}

\* call, ret: one function called on its own, its arguments and what it returned.
\* The rest is a pipeline run: the entry point running and where it stands, the
\* results of the stages so far, the agent's intermediate steps, the blocks the
\* store holds, and what the entry point gave back.
VARIABLES call, ret, entry, pc, pre, rt, br, steps, store, result

vars == <<call, ret, entry, pc, pre, rt, br, steps, store, result>>
run_vars == <<entry, pc, pre, rt, br, steps, store, result>>

NotReturned == [done |-> FALSE]
NotYet == [made |-> FALSE]

\* No pipeline is running.
NoRun ==
    /\ entry = "none"
    /\ pc = "idle"
    /\ pre = NotYet
    /\ rt = NotYet
    /\ br = NotYet
    /\ steps = <<>>
    /\ store = <<>>
    /\ result = NotReturned

AnnotateInit ==
    /\ call \in [fn : {"create_formatted_rich_text_array"},
                 format_instructions : FormatInstructions,
                 result_text : ResultTexts,
                 client : ClientOutcomes,
                 resp : AnnResponses]
    /\ ret = NotReturned
    /\ NoRun

Annotate ==
    /\ call.fn = "create_formatted_rich_text_array"
    /\ ~ret.done
    /\ LET r == create_formatted_rich_text_array(call.format_instructions, call.result_text,
                                                 call.client, call.resp) IN
       ret' = [done |-> TRUE, raised |-> FALSE, value |-> r.value, invoked |-> r.invoked]
    /\ UNCHANGED <<call, run_vars>>

SpecAnnotate == AnnotateInit /\ [][Annotate]_vars


\* ----------------------------------------------- stage 1: the instruction splitter
PreResult(success, bi, fi, text, e) ==
    [success |-> success, block_instructions |-> bi, format_instructions |-> fi,
     result_text |-> text, error |-> e]

\* The except branch keeping a best-effort structural output.
PreFailure_Partial(e) == PreResult(FALSE, Str(<<"a">>), Str(<<>>), <<>>, e)

\* preprocessing.py 185-192
PreFailure(e) == PreResult(FALSE, Str(<<>>), Str(<<>>), <<>>, e)

\* extract_result_text without its try/except: an oracle failure propagates.
extract_result_text_NoCatch(client, resp) ==
    IF client = "raise" \/ resp.kind = "raise"
    THEN [raised |-> TRUE, value |-> <<>>, invoked |-> client = "ok"]
    ELSE [raised |-> FALSE, value |-> StrStrip(resp.text), invoked |-> TRUE]

\* extract_result_text answering the empty string without asking the oracle.
extract_result_text_Skipped(client, resp) ==
    [raised |-> FALSE, value |-> <<>>, invoked |-> FALSE]

\* extract_result_text(user_input): the client is built outside the try (line 30),
\* the oracle is called inside it (84-89).  [raised, value, invoked].
extract_result_text(client, resp) ==
    IF client = "raise" THEN [raised |-> TRUE, value |-> <<>>, invoked |-> FALSE]
    ELSE IF resp.kind = "raise" THEN [raised |-> FALSE, value |-> <<>>, invoked |-> TRUE]
    ELSE [raised |-> FALSE, value |-> StrStrip(resp.text), invoked |-> TRUE]

\* preprocessing.py 171
ValidPartition(parsed) ==
    /\ parsed.t = "obj"
    /\ HasKey(parsed, "block_instructions")
    /\ HasKey(parsed, "format_instructions")

Returned(x, n_partition, n_content) ==
    [raised |-> FALSE, exc |-> "", value |-> x,
     partition_calls |-> n_partition, content_calls |-> n_content]

\* call_preprocessing_agent(user_input), with what the two client constructors and the
\* two oracle calls do.  The client of line 102 is built outside the try.
call_preprocessing_agent(client, resp, content_client, content_resp) ==
    IF client = "raise"
    THEN [raised |-> TRUE, exc |-> ErrClient, value |-> PreFailure(ErrClient),
          partition_calls |-> 0, content_calls |-> 0]
    ELSE IF resp.kind = "raise" THEN Returned(PreFailure(ErrOracle), 1, 0)
    ELSE LET parsed == JsonLoads(_strip_code_fences(resp.text)) IN
         IF ~parsed.ok THEN Returned(PreFailure(ErrJson), 1, 0)
         ELSE IF ~ValidPartition(parsed.val)
         THEN Returned(PreFailure("Invalid response format"), 1, 0)
         ELSE LET text == extract_result_text(content_client, content_resp) IN
              IF text.raised
              THEN Returned(PreFailure(ErrClient), 1, IF text.invoked THEN 1 ELSE 0)
              ELSE Returned(PreResult(TRUE, Get(parsed.val, "block_instructions"),
                                      Get(parsed.val, "format_instructions"),
                                      text.value, ""),
                            1, IF text.invoked THEN 1 ELSE 0)

\* What the partition oracle may answer.
BlockInstructions == {Str(<<"a">>), Num(1)}
PartAnswers ==
    {Obj(<<<<"block_instructions", b>>, <<"format_instructions", f>>>>) :
        b \in BlockInstructions, f \in FormatInstructions}
    \cup {Obj(<<<<"format_instructions", f>>, <<"block_instructions", Str(<<"a">>)>>,
                <<"notes", Null>>>>) : f \in FormatInstructions}
    \cup {Obj(<<<<"block_instructions", Str(<<"a">>)>>>>),
          Obj(<<<<"format_instructions", Str(<<" ", "b">>)>>>>),
          Obj(<<>>), Arr(<<>>), Arr(<<Str(<<"a">>)>>), Str(<<"a">>), Num(1), Null}
PartResponses == {Raises} \cup {Answers(w, x) : w \in Wraps, x \in PartAnswers}

\* What the content oracle may answer: it raises, or returns a str.
ContentResponses ==
    {[kind |-> "raise", text |-> <<>>]}
    \cup {[kind |-> "text", text |-> s] :
            s \in {<<>>, <<" ", "\n">>, <<"\n", "a", " ">>, <<"a", "b">>}}

SplitInit ==
    /\ call \in [fn : {"call_preprocessing_agent"},
                 client : ClientOutcomes,
                 resp : PartResponses,
                 content_client : ClientOutcomes,
                 content_resp : ContentResponses]
    /\ ret = NotReturned
    /\ NoRun

Split ==
    /\ call.fn = "call_preprocessing_agent"
    /\ ~ret.done
    /\ LET r == call_preprocessing_agent(call.client, call.resp,
                                         call.content_client, call.content_resp) IN
       ret' = [done |-> TRUE, raised |-> r.raised, value |-> r.value,
               partition_calls |-> r.partition_calls, content_calls |-> r.content_calls]
    /\ UNCHANGED <<call, run_vars>>

SpecSplit == SplitInit /\ [][Split]_vars

\* ------------------------------------------------ stage 4: the block tools
TEST_PAGE_ID == Str(<<"page">>)

Bool(b) == [t |-> "bool", v |-> b]
Tick == <<"tick", "backtick">>

\* A truth test that only None fails.
Falsy_NoneOnly(x) == x.t = "null"

\* bool(x) is False
Falsy(x) ==
    \/ x.t = "null"
    \/ x.t = "str" /\ x.v = <<>>
    \/ x.t = "num" /\ x.v = 0
    \/ x.t = "bool" /\ ~x.v
    \/ x.t \in {"arr", "obj"} /\ x.v = <<>>

\* str(x)
PyStr(x) ==
    IF x.t = "str" THEN x.v
    ELSE IF x.t = "num" THEN <<"digits">>
    ELSE <<"repr">>

\* dict.update(more)
RECURSIVE Update(_, _)
Update(members, more) ==
    IF more = <<>> THEN members
    ELSE Update(Put(members, more[1][1], more[1][2]), Tail(more))

\* block_tool.py 12-24
_clean_json_input(input_str) ==
    LET c0 == TokStrip(input_str)
        c1 == IF Len(c0) >= 2 /\ c0[1] = Fence /\ c0[2] = Lang("json")
              THEN SubSeq(c0, 3, Len(c0)) ELSE c0
        c2 == IF c1 # <<>> /\ c1[1] = Fence THEN Tail(c1) ELSE c1
        c3 == IF c2 # <<>> /\ c2[Len(c2)] = Fence THEN SubSeq(c2, 1, Len(c2) - 1) ELSE c2
        c4 == IF Len(c3) >= 2 /\ c3[1] = Tick /\ c3[Len(c3)] = Tick
              THEN SubSeq(c3, 2, Len(c3) - 1) ELSE c3
    IN TokStrip(c4)

Default == Str(<<"default">>)

\* block_tool.py 27-35
HasBlockConfig(block_type) ==
    block_type \in {"heading_1", "heading_2", "heading_3", "to_do", "code", "callout", "toggle"}
BLOCK_CONFIGS(block_type) ==
    CASE block_type \in {"heading_1", "heading_2", "heading_3"} ->
            <<<<"is_toggleable", Bool(FALSE)>>, <<"color", Default>>>>
      [] block_type = "to_do" -> <<<<"checked", Bool(FALSE)>>, <<"color", Default>>>>
      [] block_type = "code" -> <<<<"language", Str(<<"python">>)>>, <<"caption", Arr(<<>>)>>>>
      [] block_type = "callout" ->
            <<<<"icon", Obj(<<<<"emoji", Str(<<"bulb">>)>>>>)>>, <<"color", Default>>>>
      [] block_type = "toggle" -> <<<<"color", Default>>>>

\* {k: v for k, v in kwargs.items() if k in config}
RECURSIVE KnownOnly(_, _)
KnownOnly(kwargs, config) ==
    IF kwargs = <<>> THEN <<>>
    ELSE IF \E i \in 1..Len(config) : config[i][1] = kwargs[1][1]
         THEN <<kwargs[1]>> \o KnownOnly(Tail(kwargs), config)
         ELSE KnownOnly(Tail(kwargs), config)

BlockDict(block_type, body) ==
    Obj(<<<<"object", Str(<<"block">>)>>, <<"type", Str(<<block_type>>)>>,
          <<block_type, Obj(body)>>>>)

\* The rich_text a block is given: a list is passed through, anything else becomes one
\* text object holding str(content), with no annotations (block_tool.py 40-43).
RichTextOf(content) ==
    IF content.t = "arr" THEN content.v ELSE <<Seg(PyStr(content), NoAnnotations)>>

\* block_tool.py 37-57
_create_block(block_type, content, kwargs) ==
    LET body == <<<<"rich_text", Arr(RichTextOf(content))>>>> IN
    IF HasBlockConfig(block_type)
    THEN BlockDict(block_type,
                   Update(body, Update(BLOCK_CONFIGS(block_type),
                                       KnownOnly(kwargs, BLOCK_CONFIGS(block_type)))))
    ELSE BlockDict(block_type, body)

\* block_tool.py 59-72
_create_structural_block(block_type, kwargs) ==
    BlockDict(block_type,
              CASE block_type = "table_of_contents" -> <<<<"color", Default>>>>
                [] block_type = "equation" ->
                     <<<<"expression",
                         IF \E i \in 1..Len(kwargs) : kwargs[i][1] = "expression"
                         THEN Get(Obj(kwargs), "expression") ELSE Str(<<"E = mc^2">>)>>>>
                [] OTHER -> <<>>)

\* The tools of block_tool.py 293-343: the block function each wraps, its required
\* parameters and its optional ones with their defaults.
TextTools ==
    {"Add Heading Block", "Add Paragraph Block", "Add Callout Block", "Add Quote Block",
     "Add Toggle Block", "Add Todo Block", "Add Bulleted List Block",
     "Add Numbered List Block", "Add Code Block"}
StructuralTools ==
    {"Add Divider Block", "Add Table of Contents Block", "Add Breadcrumb Block",
     "Add Equation Block"}
MediaTools ==
    {"Add Image Block", "Add Video Block", "Add Embed Block", "Add URL Block",
     "Add Bookmark Block"}
Tools == TextTools \cup StructuralTools \cup MediaTools \cup {"Add Table Block"}

RequiredParams(tool) ==
    CASE tool = "Add Image Block" -> <<"page_id", "image_url">>
      [] tool = "Add Video Block" -> <<"page_id", "video_url">>
      [] tool = "Add Embed Block" -> <<"page_id", "embed_url">>
      [] tool = "Add URL Block" -> <<"page_id", "url">>
      [] tool = "Add Bookmark Block" -> <<"page_id", "bookmark_url">>
      [] OTHER -> <<"page_id">>

OptionalParams(tool) ==
    CASE tool = "Add Heading Block" -> <<<<"level", Num(1)>>>>
      [] tool = "Add Callout Block" -> <<<<"icon", Str(<<"bulb">>)>>>>
      [] tool = "Add Todo Block" -> <<<<"checked", Bool(FALSE)>>>>
      [] tool = "Add Code Block" -> <<<<"language", Str(<<"python">>)>>>>
      [] tool = "Add Equation Block" -> <<<<"expression", Str(<<"E = mc^2">>)>>>>
      [] tool = "Add URL Block" -> <<<<"title", Str(<<>>)>>>>
      [] tool \in MediaTools \ {"Add URL Block"} -> <<<<"caption", Str(<<>>)>>>>
      [] tool = "Add Table Block" ->
            <<<<"table_width", Num(1)>>, <<"table_height", Num(1)>>,
              <<"has_column_header", Bool(FALSE)>>, <<"has_row_header", Bool(FALSE)>>>>
      [] OTHER -> <<>>

BlockTypeOf(tool) ==
    CASE tool = "Add Paragraph Block" -> "paragraph"
      [] tool = "Add Callout Block" -> "callout"
      [] tool = "Add Quote Block" -> "quote"
      [] tool = "Add Toggle Block" -> "toggle"
      [] tool = "Add Todo Block" -> "to_do"
      [] tool = "Add Bulleted List Block" -> "bulleted_list_item"
      [] tool = "Add Numbered List Block" -> "numbered_list_item"
      [] tool = "Add Code Block" -> "code"
      [] tool = "Add Divider Block" -> "divider"
      [] tool = "Add Table of Contents Block" -> "table_of_contents"
      [] tool = "Add Breadcrumb Block" -> "breadcrumb"
      [] tool = "Add Equation Block" -> "equation"
      [] tool = "Add Image Block" -> "image"
      [] tool = "Add Video Block" -> "video"
      [] tool = "Add Embed Block" -> "embed"
      [] tool = "Add URL Block" -> "link_preview"
      [] tool = "Add Bookmark Block" -> "bookmark"
      [] tool = "Add Table Block" -> "table"

Built(block) == [raised |-> FALSE, exc |-> "", block |-> block]
BuildRaises(e) == [raised |-> TRUE, exc |-> e, block |-> Null]

\* block_tool.py 104-108.  A level that is no number cannot be compared with 1.
add_notion_heading_block(content, level) ==
    IF level.t = "num"
    THEN Built(_create_block(CASE level.v = 2 -> "heading_2"
                               [] level.v = 3 -> "heading_3"
                               [] OTHER -> "heading_1",
                             content, <<>>))
    ELSE IF level.t = "bool"
    THEN Built(_create_block(IF level.v THEN "heading_True" ELSE "heading_1", content, <<>>))
    ELSE BuildRaises(ErrType)

\* A media block that keeps the URL under url whatever its type.
_create_media_block_Flat(block_type, url, kwargs) ==
    IF url.t # "str" THEN BuildRaises(ErrAttribute)
    ELSE Built(BlockDict(block_type, <<<<"url", Str(StrStrip(url.v))>>>>))

\* block_tool.py 74-95, kwargs being what the add_notion_*_block function passes on:
\* caption for image, video, embed and bookmark, title for link_preview.
_create_media_block(block_type, url, kwargs) ==
    IF url.t # "str" THEN BuildRaises(ErrAttribute)
    ELSE LET block_content ==
                 IF block_type \in {"image", "video"}
                 THEN <<<<"type", Str(<<"external">>)>>,
                        <<"external", Obj(<<<<"url", Str(StrStrip(url.v))>>>>)>>>>
                 ELSE <<<<"url", Str(StrStrip(url.v))>>>>
             has_caption == HasKey(Obj(kwargs), "caption")
                            /\ ~Falsy(Get(Obj(kwargs), "caption"))
         IN IF block_type \notin {"image", "video", "embed", "bookmark", "link_preview"}
            THEN BuildRaises("Unsupported media block type")
            ELSE Built(BlockDict(block_type,
                     IF has_caption
                     THEN Put(block_content, "caption",
                              Arr(<<Seg(Get(Obj(kwargs), "caption").v, NoAnnotations)>>))
                     ELSE block_content))

\* A range that stops one short.
RangeLen_OneShort(n) ==
    IF n.t = "num" THEN (IF n.v > 1 THEN n.v - 1 ELSE 0)
    ELSE IF n.t = "bool" THEN 0
    ELSE -1

\* range(n): how many times the loop runs, -1 where n is no integer
RangeLen(n) ==
    IF n.t = "num" THEN (IF n.v > 0 THEN n.v ELSE 0)
    ELSE IF n.t = "bool" THEN (IF n.v THEN 1 ELSE 0)
    ELSE -1

\* block_tool.py 198-221: the table block, its rows built cell by cell
add_notion_table_block(kwargs) ==
    LET table_width == Get(Obj(kwargs), "table_width")
        table_height == Get(Obj(kwargs), "table_height")
        row_cells == [col \in 1..RangeLen(table_width) |-> Arr(<<Seg(<<>>, NoAnnotations)>>)]
        children == [row \in 1..RangeLen(table_height) |->
                        Obj(<<<<"type", Str(<<"table_row">>)>>,
                              <<"table_row", Obj(<<<<"cells", Arr(row_cells)>>>>)>>>>)]
    IN IF RangeLen(table_height) = -1 \/ (RangeLen(table_height) > 0 /\ RangeLen(table_width) = -1)
       THEN BuildRaises(ErrType)
       ELSE Built(Obj(<<<<"type", Str(<<"table">>)>>,
                        <<"table",
                          Obj(<<<<"table_width", table_width>>,
                                <<"has_column_header", Get(Obj(kwargs), "has_column_header")>>,
                                <<"has_row_header", Get(Obj(kwargs), "has_row_header")>>,
                                <<"children", Arr(children)>>>>)>>>>))

\* block_func(*args, **kwargs) of block_tool.py 104-223: the block it builds for the
\* remote append, or the TypeError of a call whose arguments do not fit it.  Only a
\* text block function takes content; extra are the required parameters after page_id.
block_func(tool, content_provided, content, extra, kwargs) ==
    IF tool \in MediaTools
    THEN IF content_provided THEN BuildRaises(ErrType)
         ELSE _create_media_block(BlockTypeOf(tool), extra[1], kwargs)
    ELSE IF tool = "Add Table Block"
    THEN IF content_provided THEN BuildRaises(ErrType)
         ELSE add_notion_table_block(kwargs)
    ELSE
    IF tool \in TextTools
    THEN IF ~content_provided THEN BuildRaises(ErrType)
         ELSE IF tool = "Add Heading Block"
              THEN add_notion_heading_block(content, Get(Obj(kwargs), "level"))
         ELSE IF tool = "Add Callout Block"
              THEN Built(_create_block("callout", content,
                           <<<<"icon", Obj(<<<<"emoji", Get(Obj(kwargs), "icon")>>>>)>>>>))
         ELSE Built(_create_block(BlockTypeOf(tool), content, kwargs))
    ELSE IF content_provided THEN BuildRaises(ErrType)
         ELSE Built(_create_structural_block(BlockTypeOf(tool), kwargs))

\* kwargs of block_tool.py 267-273: every optional parameter, from data or its default
RECURSIVE Kwargs(_, _)
Kwargs(optional, data) ==
    IF optional = <<>> THEN <<>>
    ELSE <<<<optional[1][1],
             IF HasKey(data, optional[1][1]) THEN Get(data, optional[1][1])
             ELSE optional[1][2]>>>>
         \o Kwargs(Tail(optional), data)

\* json.dumps of the tool's return value, and what it did to the store:
\* sent: a remote append was issued; appended: the store accepted it.
ToolError(e) ==
    [success |-> FALSE, error |-> e, sent |-> FALSE, appended |-> FALSE,
     page |-> Null, block |-> Null]
ErrStore == "APIResponseError"
ErrRequired == "are required"

\* tool_func from line 233 on, data being a dict of the JSON kind.
Call(tool, data, store_ok) ==
    LET has_rta == HasKey(data, "rich_text_array")
        content_provided == has_rta \/ HasKey(data, "text")
        content == IF has_rta THEN Get(data, "rich_text_array")
                   ELSE IF HasKey(data, "text") THEN Get(data, "text")
                   ELSE Str(<<>>)
        required == RequiredParams(tool)
        missing == {i \in 1..Len(required) :
                       /\ required[i] # "text"
                       /\ (~HasKey(data, required[i]) \/ Falsy(Get(data, required[i])))}
        content_required == \E i \in 1..Len(required) : required[i] = "text"
    IN IF missing # {} \/ ((content_required \/ has_rta) /\ ~content_provided)
       THEN ToolError(ErrRequired)
       ELSE Only({IF built.raised THEN ToolError(built.exc)
                  ELSE IF ~store_ok
                  THEN [success |-> FALSE, error |-> ErrStore, sent |-> TRUE,
                        appended |-> FALSE, page |-> Get(data, "page_id"),
                        block |-> built.block]
                  ELSE [success |-> TRUE, error |-> "", sent |-> TRUE,
                        appended |-> TRUE, page |-> Get(data, "page_id"),
                        block |-> built.block] :
                    built \in {block_func(tool, content_provided, content,
                                          [i \in 1..(Len(required) - 1) |->
                                              Get(data, required[i + 1])],
                                          Kwargs(OptionalParams(tool), data))}})

\* tool_func(input_str) of create_unified_tool_func (block_tool.py 229-287), the store
\* accepting the append or raising on it.
tool_func(tool, input_str, store_ok) ==
    Only({IF ~loaded.ok THEN ToolError(ErrJson)
          ELSE IF loaded.val.t = "seg" THEN ToolError(ErrRequired)
          ELSE IF loaded.val.t \in {"str", "arr"} THEN ToolError(ErrAttribute)
          ELSE IF loaded.val.t # "obj" THEN ToolError(ErrType)
          ELSE Call(tool, loaded.val, store_ok) :
            loaded \in {JsonLoads(_clean_json_input(input_str))}})

\* What a caller may put in a tool's input: zero or one member each for the page,
\* the content, and the parameters of the tool.
PageChoices == {<<>>, <<<<"page_id", TEST_PAGE_ID>>>>, <<<<"page_id", Str(<<>>)>>>>}
ContentChoices ==
    {<<>>, <<<<"text", Str(<<>>)>>>>, <<<<"text", Str(<<"a">>)>>>>}
    \cup {<<<<"rich_text_array", Arr(a)>>>> :
            a \in {<<>>, <<Seg(<<"a">>, BoldRed)>>,
                   <<Seg(<<"a">>, PlainAnnotations), Seg(<<"b">>, BoldRed)>>}}
UrlChoices ==
    {<<>>} \cup {<<u>> : u \in {Str(<<>>), Str(<<" ">>), Str(<<"u">>), Str(<<" ", "u", "\n">>), Num(1)}}
NoteChoices == {<<>>} \cup {<<n>> : n \in {Str(<<>>), Str(<<"c">>)}}
DimChoices == {<<>>} \cup {<<Num(n)>> : n \in 0..MaxDim}

\* zero or one member named k
Named(k, choice) == IF choice = <<>> THEN <<>> ELSE <<<<k, choice[1]>>>>

ParamChoices(tool) ==
    CASE tool = "Add Heading Block" ->
            {Named("level", c) :
                c \in {<<>>, <<Num(0)>>, <<Num(1)>>, <<Num(2)>>, <<Num(3)>>, <<Num(5)>>,
                       <<Str(<<"2">>)>>, <<Bool(TRUE)>>}}
      [] tool = "Add Todo Block" -> {Named("checked", c) : c \in {<<>>, <<Bool(TRUE)>>}}
      [] tool = "Add Code Block" -> {Named("language", c) : c \in {<<>>, <<Str(<<"js">>)>>}}
      [] tool = "Add Equation Block" ->
            {Named("expression", c) : c \in {<<>>, <<Str(<<"x">>)>>}}
      [] tool = "Add URL Block" ->
            {Named("url", u) \o Named("title", n) : u \in UrlChoices, n \in NoteChoices}
      [] tool \in MediaTools \ {"Add URL Block"} ->
            {Named(RequiredParams(tool)[2], u) \o Named("caption", n) :
                u \in UrlChoices, n \in NoteChoices}
      [] tool = "Add Table Block" ->
            {Named("table_width", w) \o Named("table_height", h) \o Named("has_column_header", c) :
                w \in DimChoices, h \in DimChoices, c \in {<<>>, <<Bool(TRUE)>>}}
      [] OTHER -> {<<>>}

ToolData(tool) ==
    {Obj(page \o content \o params) :
        page \in PageChoices,
        content \in IF tool \in TextTools THEN ContentChoices
                    ELSE {<<>>, <<<<"text", Str(<<"a">>)>>>>},
        params \in ParamChoices(tool)}

\* One call of a tool's tool_func: its input, and whether the store will accept.
ToolInit ==
    /\ \E tool \in Tools, w \in {"bare", "fenced", "truncated"} :
         \E data \in ToolData(tool) :
           \E store_ok \in BOOLEAN :
             call = [fn |-> "tool_func", tool |-> tool, data |-> data, wrap |-> w,
                     tool_input |-> Wrap(w, Ser(data)), store_ok |-> store_ok]
    /\ ret = NotReturned
    /\ NoRun

RunTool ==
    /\ call.fn = "tool_func"
    /\ ~ret.done
    /\ \E out \in {tool_func(call.tool, call.tool_input, call.store_ok)} :
         ret' = [done |-> TRUE, raised |-> FALSE, out |-> out]
    /\ UNCHANGED <<call, run_vars>>

SpecTool == ToolInit /\ [][RunTool]_vars

\* ------------------------------------- block_tool: the shared configuration table
\* The module-level dict BLOCK_CONFIGS as the process holds it: one entry per
\* configured block type.
ConfiguredTypes == {"heading_1", "heading_2", "heading_3", "to_do", "code", "callout", "toggle"}
ConfigTable == [block_type \in ConfiguredTypes |-> BLOCK_CONFIGS(block_type)]

\* What a builder call leaves: the block it returns and the table after it.
Encoded(block, table) == [block |-> block, table |-> table]

\* A _create_block that updates the table's own entry instead of a copy of it.
_create_block_call_NoCopy(table, block_type, content, kwargs) ==
    LET body == <<<<"rich_text", Arr(RichTextOf(content))>>>> IN
    IF block_type \in DOMAIN table
    THEN LET config == Update(table[block_type], KnownOnly(kwargs, table[block_type]))
         IN Encoded(BlockDict(block_type, Update(body, config)),
                    [table EXCEPT ![block_type] = config])
    ELSE Encoded(BlockDict(block_type, body), table)

\* _create_block (block_tool.py 37-57) run against the table as it stands: line 53
\* copies the entry, line 54 updates the copy, line 55 copies its items into the
\* block; the table is written nowhere.
_create_block_call(table, block_type, content, kwargs) ==
    LET body == <<<<"rich_text", Arr(RichTextOf(content))>>>> IN
    IF block_type \in DOMAIN table
    THEN LET config == Update(table[block_type], KnownOnly(kwargs, table[block_type]))
         IN Encoded(BlockDict(block_type, Update(body, config)), table)
    ELSE Encoded(BlockDict(block_type, body), table)

\* The builder calls made one after another in one process.
MaxBuilt == 2
EncodeTypes == {"paragraph", "to_do", "code", "callout"}
EncodeContents == {Str(<<"a">>), Arr(<<Seg(<<"a">>, BoldRed)>>)}
EncodeOptions ==
    {<<>>, <<<<"checked", Bool(TRUE)>>>>, <<<<"language", Str(<<"js">>)>>>>,
     <<<<"icon", Obj(<<<<"emoji", Str(<<"fire">>)>>>>)>>>>}

\* One builder call as the history records it.
Request(kind, block_type, content, kwargs, block) ==
    [kind |-> kind, block_type |-> block_type, content |-> content, kwargs |-> kwargs,
     block |-> block]

EncodeInit ==
    /\ call = [fn |-> "encode"]
    /\ ret = [done |-> FALSE, configs |-> ConfigTable, built |-> <<>>]
    /\ NoRun

EncodeText ==
    /\ call.fn = "encode"
    /\ Len(ret.built) < MaxBuilt
    /\ \E block_type \in EncodeTypes, content \in EncodeContents, kwargs \in EncodeOptions :
         \E r \in {_create_block_call(ret.configs, block_type, content, kwargs)} :
           ret' = [ret EXCEPT !.configs = r.table,
                              !.built = Append(@, Request("text", block_type, content,
                                                          kwargs, r.block))]
    /\ UNCHANGED <<call, run_vars>>

EncodeStructural ==
    /\ call.fn = "encode"
    /\ Len(ret.built) < MaxBuilt
    /\ \E block_type \in {"divider", "equation"},
          kwargs \in {<<>>, <<<<"expression", Str(<<"x">>)>>>>} :
         ret' = [ret EXCEPT !.built =
                    Append(@, Request("structural", block_type, Null, kwargs,
                                      _create_structural_block(block_type, kwargs)))]
    /\ UNCHANGED <<call, run_vars>>

EncodeMedia ==
    /\ call.fn = "encode"
    /\ Len(ret.built) < MaxBuilt
    /\ \E block_type \in {"image", "embed"},
          kwargs \in {<<<<"caption", Str(<<>>)>>>>, <<<<"caption", Str(<<"c">>)>>>>} :
         ret' = [ret EXCEPT !.built =
                    Append(@, Request("media", block_type, Str(<<"u">>), kwargs,
                                      _create_media_block(block_type, Str(<<"u">>),
                                                          kwargs).block))]
    /\ UNCHANGED <<call, run_vars>>

SpecEncode == EncodeInit /\ [][EncodeText \/ EncodeStructural \/ EncodeMedia]_vars

\* ------------------------------------------- text_tool: appending a block list
\* The model AppendResult (schemas/text_schema.py), absent fields None.
AppendResult(success, message, page_id, blocks_count, e) ==
    [success |-> success, message |-> message, page_id |-> page_id,
     blocks_count |-> blocks_count, error |-> e]

\* What an append did: the dict returned, the remote calls issued, the document after.
Appended(value, remote, doc) == [value |-> value, remote |-> remote, doc |-> doc]

AppendFailed(e, remote, doc) ==
    Appended(AppendResult(FALSE, "Failed to append blocks to page", Null, Null, e), remote, doc)

\* The entries a document gains when the store accepts children for a page.
DocEntries(page_id, children) ==
    [i \in 1..Len(children) |-> [page |-> page_id, block |-> children[i]]]

\* An append that sends the blocks one call each and stops at the one refused.
append_blocks_to_page_OneByOne(page_id, blocks, doc, store_ok) ==
    LET n == IF blocks.t = "arr" THEN Len(blocks.v) ELSE 0
        calls == [i \in 1..n |-> [page |-> page_id, children |-> Arr(<<blocks.v[i]>>)]]
    IN IF store_ok
       THEN Appended(AppendResult(TRUE, "Successfully appended N blocks to page",
                                  page_id, Num(n), Null),
                     calls, doc \o DocEntries(page_id, SubSeq(blocks.v, 1, n)))
       ELSE AppendFailed(ErrStore, calls, doc \o DocEntries(page_id, SubSeq(blocks.v, 1, n - 1)))

\* append_blocks_to_page(page_id, blocks) of text_tool.py 173-217, on a document doc
\* whose store accepts the remote call or raises on it.  len(blocks) and block.get
\* (lines 188-192) raise before any remote call on what is no list of dicts.
append_blocks_to_page(page_id, blocks, doc, store_ok) ==
    IF blocks.t \in {"null", "num", "bool"} THEN AppendFailed(ErrType, <<>>, doc)
    ELSE IF \E i \in 1..Len(blocks.v) : blocks.t # "arr" \/ ~IsDict(blocks.v[i])
    THEN AppendFailed(ErrAttribute, <<>>, doc)
    ELSE LET children == IF blocks.t = "arr" THEN blocks.v ELSE <<>>
             remote == <<[page |-> page_id, children |-> blocks]>>
         IN IF store_ok
            THEN Appended(AppendResult(TRUE, "Successfully appended N blocks to page",
                                       page_id, Num(Len(children)), Null),
                          remote, doc \o DocEntries(page_id, children))
            ELSE AppendFailed(ErrStore, remote, doc)

\* A token that holds an opening brace, and one that holds a closing brace: the
\* punctuation itself, or a dict literal.
HasBrace(tk, c) == IsP(tk, c) \/ (tk[1] = "lit" /\ tk[2].t = "seg")

\* re.search of a brace, anything, a brace (text_tool.py 577-578): from the first
\* opening brace to the last closing brace after it; <<>> where there is no match.
JsonMatch(input_str) ==
    LET opens == {i \in 1..Len(input_str) : HasBrace(input_str[i], "{")}
        first == CHOOSE i \in opens : \A j \in opens : i <= j
        closes == {i \in 1..Len(input_str) : HasBrace(input_str[i], "}") /\ i >= first}
        last == CHOOSE i \in closes : \A j \in closes : j <= i
    IN IF opens = {} \/ closes = {} \/ (first = last /\ IsP(input_str[first], "{"))
       THEN <<>>
       ELSE SubSeq(input_str, first, last)

\* text_tool.py 583-590: the cleaning used when nothing matches
BasicClean(input_str) ==
    LET c0 == TokStrip(input_str)
        c1 == IF Len(c0) >= 2 /\ c0[1] = Fence /\ c0[2] = Lang("json")
              THEN SubSeq(c0, 3, Len(c0)) ELSE c0
        c2 == IF c1 # <<>> /\ c1[1] = Fence THEN Tail(c1) ELSE c1
        c3 == IF c2 # <<>> /\ c2[Len(c2)] = Fence THEN SubSeq(c2, 1, Len(c2) - 1) ELSE c2
    IN TokStrip(c3)

AppendToolError(doc) ==
    Appended(AppendResult(FALSE, "", Null, Null, "Append blocks failed"), <<>>, doc)

\* append_blocks_to_page_tool(input_str) of text_tool.py 559-622
append_blocks_to_page_tool(input_str, doc, store_ok) ==
    Only({IF ~config.ok \/ ~IsDict(config.val) THEN AppendToolError(doc)
          ELSE IF config.val.t = "seg" \/ ~HasKey(config.val, "page_id")
                  \/ Falsy(Get(config.val, "page_id"))
          THEN AppendToolError(doc)
          ELSE append_blocks_to_page(Get(config.val, "page_id"),
                                     IF HasKey(config.val, "blocks")
                                     THEN Get(config.val, "blocks") ELSE Arr(<<>>),
                                     doc, store_ok) :
            config \in {JsonLoads(IF JsonMatch(input_str) # <<>> THEN JsonMatch(input_str)
                                  ELSE BasicClean(input_str))}})

\* The blocks a caller may hand over, and the document it may find.
MaxBlocks == 2
SomeBlocks ==
    {_create_block("paragraph", Str(<<"a">>), <<>>), _create_structural_block("divider", <<>>),
     Num(1)}
BlockLists == {Arr(b) : b \in SeqsUpTo(SomeBlocks, MaxBlocks)} \cup {Null}
Documents == {<<>>, <<[page |-> TEST_PAGE_ID, block |-> _create_structural_block("divider", <<>>)]>>}

AppendInit ==
    /\ \/ call \in [fn : {"append_blocks_to_page"}, page_id : {TEST_PAGE_ID},
                    blocks : BlockLists, doc : Documents, store_ok : BOOLEAN]
       \/ \E page \in PageChoices, w \in Wraps, doc \in Documents, store_ok \in BOOLEAN :
            \E blocks \in {<<>>} \cup {<<<<"blocks", b>>>> : b \in BlockLists} :
              call = [fn |-> "append_blocks_to_page_tool", data |-> Obj(page \o blocks),
                      wrap |-> w, tool_input |-> Wrap(w, Ser(Obj(page \o blocks))),
                      doc |-> doc, store_ok |-> store_ok]
    /\ ret = NotReturned
    /\ NoRun

RunAppend ==
    /\ call.fn = "append_blocks_to_page"
    /\ ~ret.done
    /\ \E r \in {append_blocks_to_page(call.page_id, call.blocks, call.doc, call.store_ok)} :
         ret' = [done |-> TRUE, raised |-> FALSE, value |-> r.value, remote |-> r.remote,
                 doc |-> r.doc]
    /\ UNCHANGED <<call, run_vars>>

RunAppendTool ==
    /\ call.fn = "append_blocks_to_page_tool"
    /\ ~ret.done
    /\ \E r \in {append_blocks_to_page_tool(call.tool_input, call.doc, call.store_ok)} :
         ret' = [done |-> TRUE, raised |-> FALSE, value |-> r.value, remote |-> r.remote,
                 doc |-> r.doc]
    /\ UNCHANGED <<call, run_vars>>

SpecAppend == AppendInit /\ [][RunAppend \/ RunAppendTool]_vars

\* ------------------------------------ text_tool: blocks from rich text objects
ErrValidation == "ValidationError"
ErrValue == "ValueError"
ErrZeroDivision == "ZeroDivisionError"

\* dict.get(k, default)
GetOr(o, k, default) == IF HasKey(o, k) THEN Get(o, k) ELSE default

\* The dict create_blocks_tool serializes: the result of text_tool.py 525-529, or
\* the error of 552-557, which has no "blocks" and no "count".
BlocksCreated(blocks) ==
    [success |-> TRUE, blocks |-> blocks, count |-> Len(blocks), error |-> ""]
BlocksFailed(e) == [success |-> FALSE, blocks |-> <<>>, count |-> 0, error |-> e]

\* create_paragraph_block, create_heading_block, create_todo_block (text_tool.py
\* 93-169): a block of a type whose body carries rich_text and the config's options.
TextBlock(block_type, rich_text, options) ==
    [type |-> block_type, rich_text |-> rich_text, options |-> options]

\* The conversion loop of text_tool.py 382-422: what is no dict is skipped, the
\* agent format is rebuilt, anything else goes through RichTextItem(**item_data),
\* which wants "text" and "annotations".
RECURSIVE ToRichTextItems(_, _)
ToRichTextItems(rich_text_objects_data, rich_text_objects) ==
    IF rich_text_objects_data = <<>> THEN [ok |-> TRUE, items |-> rich_text_objects]
    ELSE LET item_data == Head(rich_text_objects_data)
             rest == Tail(rich_text_objects_data)
             flag(k) == GetOr(item_data, k, Bool(FALSE)).v
         IN IF ~IsDict(item_data) THEN ToRichTextItems(rest, rich_text_objects)
            ELSE IF item_data.t = "obj"
            THEN IF HasKey(item_data, "content") /\ ~HasKey(item_data, "text")
                    /\ Get(item_data, "content").t = "str"
                 THEN ToRichTextItems(rest, Append(rich_text_objects,
                        Seg(Get(item_data, "content").v,
                            [bold |-> flag("bold"), italic |-> flag("italic"),
                             strikethrough |-> flag("strikethrough"),
                             underline |-> flag("underline"), code |-> flag("code"),
                             color |-> GetOr(item_data, "color", Str(<<"default">>)).v[1]])))
                 ELSE [ok |-> FALSE, items |-> <<>>]
            ELSE IF item_data.v.annotations = NoAnnotations
            THEN [ok |-> FALSE, items |-> <<>>]
            ELSE ToRichTextItems(rest, Append(rich_text_objects, item_data))

\* block_type.startswith("heading_"), for the block types of BlockConfigs
StartsWithHeading(block_type) ==
    block_type \in {Str(<<"heading_1">>), Str(<<"heading_2">>), Str(<<"heading_3">>),
                    Str(<<"heading_02">>), Str(<<"heading_x">>)}

\* int(block_type.split("_")[1]); -1 where int() raises ValueError
HeadingLevelOf(block_type) ==
    CASE block_type = Str(<<"heading_1">>) -> 1
      [] block_type \in {Str(<<"heading_2">>), Str(<<"heading_02">>)} -> 2
      [] block_type = Str(<<"heading_3">>) -> 3
      [] OTHER -> -1

\* f"heading_{level}" of create_heading_block (text_tool.py 134)
HeadingTypeOf(level) ==
    CASE level = 1 -> Str(<<"heading_1">>)
      [] level = 2 -> Str(<<"heading_2">>)
      [] level = 3 -> Str(<<"heading_3">>)

\* [block_rich_text[0]] if block_rich_text else [] (text_tool.py 483, 488)
FirstOnly(block_rich_text) ==
    IF block_rich_text # <<>> THEN <<block_rich_text[1]>> ELSE <<>>

\* The body of each of the three loops (text_tool.py 430-447, 475-491, 507-521):
\* one block from its config and the rich text chosen for it.  grouping is TRUE in
\* the second loop, where a heading and a to-do take the first object only.
OneBlock(block_config, block_rich_text, grouping) ==
    IF ~IsDict(block_config) THEN BuildRaises(ErrAttribute)
    ELSE LET block_type == IF block_config.t = "seg" THEN Str(<<"text">>)
                           ELSE GetOr(block_config, "type", Str(<<"paragraph">>))
             color == IF block_config.t = "seg" THEN Str(<<"default">>)
                      ELSE GetOr(block_config, "color", Str(<<"default">>))
             used == IF grouping THEN FirstOnly(block_rich_text) ELSE block_rich_text
         IN IF block_type = Str(<<"paragraph">>)
            THEN Built(TextBlock(block_type, block_rich_text, <<color>>))
            ELSE IF block_type.t # "str" THEN BuildRaises(ErrAttribute)
            ELSE IF StartsWithHeading(block_type)
            THEN IF HeadingLevelOf(block_type) = -1 THEN BuildRaises(ErrValue)
                 ELSE Built(TextBlock(HeadingTypeOf(HeadingLevelOf(block_type)), used,
                                      <<color, Bool(FALSE)>>))
            ELSE IF block_type = Str(<<"to_do">>)
            THEN Built(TextBlock(block_type, used, <<Bool(FALSE), color>>))
            ELSE Built(TextBlock(Str(<<"paragraph">>), block_rich_text,
                                 <<Str(<<"default">>)>>))

\* rich_text_objects[a:b], both counted from 0
Slice(s, a, b) == SubSeq(s, a + 1, IF b < Len(s) THEN b ELSE Len(s))

\* The loop text_tool.py 428-523 runs over blocks_config, whichever of its three
\* branches is taken: i counts the configs from 0, rich_text_index is where the
\* grouping branch stands in rich_text_objects, blocks what was built so far.
RECURSIVE BuildBlocks(_, _, _, _, _)
BuildBlocks(blocks_config, rich_text_objects, i, rich_text_index, blocks) ==
    IF i >= Len(blocks_config) THEN BlocksCreated(blocks)
    ELSE LET n == Len(rich_text_objects)
             m == Len(blocks_config)
             objects_per_block == n \div m
             remainder == n % m
             objects_for_this_block == objects_per_block + (IF i < remainder THEN 1 ELSE 0)
             end_index == IF n > m THEN rich_text_index + objects_for_this_block
                          ELSE rich_text_index
             block_rich_text ==
                 IF n = m THEN <<rich_text_objects[i + 1]>>
                 ELSE IF n > m THEN Slice(rich_text_objects, rich_text_index, end_index)
                 ELSE IF i < n THEN <<rich_text_objects[i + 1]>>
                 ELSE <<>>
         IN Only({IF block.raised THEN BlocksFailed(block.exc)
                  ELSE BuildBlocks(blocks_config, rich_text_objects, i + 1, end_index,
                                   Append(blocks, block.block)) :
                    block \in {OneBlock(blocks_config[i + 1], block_rich_text, n > m)}})

\* create_blocks_tool(input_str) of text_tool.py 327-557, as the dict it serializes
create_blocks_tool(input_str) ==
    Only({IF ~config.ok THEN BlocksFailed(ErrJson)
          ELSE IF ~IsDict(config.val) THEN BlocksFailed(ErrAttribute)
          ELSE IF config.val.t = "seg" THEN BlocksCreated(<<>>)
          ELSE LET rich_text_objects_data == GetOr(config.val, "rich_text_objects", Arr(<<>>))
                   blocks_config == GetOr(config.val, "blocks_config", Arr(<<>>))
               IN IF rich_text_objects_data.t # "arr" \/ blocks_config.t # "arr"
                  THEN BlocksFailed(ErrType)
                  ELSE Only({IF ~converted.ok THEN BlocksFailed(ErrValidation)
                             ELSE IF blocks_config.v = <<>> /\ converted.items # <<>>
                             THEN BlocksFailed(ErrZeroDivision)
                             ELSE BuildBlocks(blocks_config.v, converted.items, 0, 0, <<>>) :
                        converted \in {ToRichTextItems(rich_text_objects_data.v, <<>>)}}) :
            config \in {JsonLoads(IF JsonMatch(input_str) # <<>> THEN JsonMatch(input_str)
                                  ELSE BasicClean(input_str))}})

\* What the caller may hand over: up to MaxObjects rich text objects, among them
\* one in the agent format, one with no annotations and one that is no dict, and
\* up to MaxConfigs block configs.
MaxObjects == 4
MaxConfigs == 2
RichTextObjects ==
    <<Seg(<<"a">>, PlainAnnotations), Seg(<<"b">>, BoldRed), Seg(<<"c">>, PlainAnnotations),
      Seg(<<"d">>, PlainAnnotations), Seg(<<"e">>, PlainAnnotations)>>
RichTextLists ==
    {SubSeq(RichTextObjects, 1, k) : k \in 0..MaxObjects}
    \cup {<<Obj(<<<<"content", Str(<<"a">>)>>, <<"bold", Bool(TRUE)>>>>)>>,
          <<Seg(<<"a">>, PlainAnnotations), Num(1), Seg(<<"b">>, PlainAnnotations)>>,
          <<Seg(<<"a">>, NoAnnotations)>>}
BlockConfigs ==
    {Obj(<<>>), Obj(<<<<"type", Str(<<"paragraph">>)>>, <<"color", Str(<<"blue">>)>>>>),
     Obj(<<<<"type", Str(<<"heading_2">>)>>>>), Obj(<<<<"type", Str(<<"heading_x">>)>>>>),
     Obj(<<<<"type", Str(<<"to_do">>)>>>>), Obj(<<<<"type", Str(<<"quote">>)>>>>)}

BlocksInit ==
    /\ \E objects \in RichTextLists, configs \in SeqsUpTo(BlockConfigs, MaxConfigs),
          w \in {"bare", "fenced", "truncated"} :
         \E data \in {Obj(<<<<"rich_text_objects", Arr(objects)>>,
                           <<"blocks_config", Arr(configs)>>>>)} :
           call = [fn |-> "create_blocks_tool", data |-> data, wrap |-> w,
                   tool_input |-> Wrap(w, Ser(data))]
    /\ ret = NotReturned
    /\ NoRun

CreateBlocks ==
    /\ call.fn = "create_blocks_tool"
    /\ ~ret.done
    /\ \E r \in {create_blocks_tool(call.tool_input)} :
         ret' = [done |-> TRUE, raised |-> FALSE, value |-> r]
    /\ UNCHANGED <<call, run_vars>>

SpecBlocks == BlocksInit /\ [][CreateBlocks]_vars

\* --------------------------------------------- stage 3: the block synthesizer
\* An executor that allows one iteration more.
max_iterations_OneMore == 100 + 1

\* block_agent.py 365: the executor stops the agent after this many iterations.
max_iterations == 100

\* One entry of intermediate_steps: the agent's action and the tool's observation.
\* sent and appended are not part of the observation; they record what the call did.
Step(tool, tool_input, out) ==
    [tool |-> tool, tool_input |-> tool_input,
     observation |-> [success |-> out.success, error |-> out.error],
     sent |-> out.sent, appended |-> out.appended]

\* The tool calls the agent oracle may ask for, given the prompt's page id and
\* rich text objects: [tool, tool_input].
ToolCall(tool, w, data) == [tool |-> tool, tool_input |-> Wrap(w, Ser(Obj(data)))]
AgentCalls(page_id, rich_text_array) ==
    {ToolCall("Add Paragraph Block", "bare",
              <<<<"page_id", page_id>>, <<"rich_text_array", Arr(rich_text_array)>>>>),
     ToolCall("Add Paragraph Block", "padded",
              <<<<"page_id", page_id>>, <<"text", Str(<<"a">>)>>>>),
     ToolCall("Add Paragraph Block", "fence_inline",
              <<<<"page_id", page_id>>,
                <<"rich_text_array", Arr(<<Seg(<<"z">>, PlainAnnotations)>>)>>>>),
     ToolCall("Add Bulleted List Block", "bare",
              <<<<"page_id", page_id>>, <<"rich_text_array", Arr(rich_text_array)>>>>),
     [tool |-> "Add Divider Block",
      tool_input |-> <<Tick>> \o Ser(Obj(<<<<"page_id", page_id>>>>)) \o <<Tick>>],
     ToolCall("Add Divider Block", "bare",
              <<<<"page_id", page_id>>, <<"text", Str(<<"a">>)>>>>),
     ToolCall("Add Paragraph Block", "bare",
              <<<<"rich_text_array", Arr(rich_text_array)>>>>),
     ToolCall("Add Paragraph Block", "truncated",
              <<<<"page_id", page_id>>, <<"rich_text_array", Arr(rich_text_array)>>>>)}
    \cup {ToolCall("Add Heading Block", "fenced",
                   <<<<"page_id", page_id>>,
                     <<"rich_text_array", Arr(<<rich_text_array[1]>>)>>,
                     <<"level", Num(2)>>>>) : x \in {1} \cap DOMAIN rich_text_array}

BrResult(success, message, n, segments, e) ==
    [success |-> success, message |-> message, blocks_created |-> n,
     rich_text_segments_processed |-> segments, error |-> e]

\* block_agent.py 388-404: what call_block_agent_with_rich_text returns once
\* agent_executor.invoke has returned intermediate_steps.
BlockAgentResult(intermediate_steps, rich_text_array) ==
    IF Len(intermediate_steps) >= 1
    THEN BrResult(TRUE, "Successfully created N formatted blocks from rich text objects",
                  Len(intermediate_steps), Len(rich_text_array), "")
    ELSE BrResult(FALSE, "Agent did not create any formatted blocks from rich text objects",
                  0, 0, "No blocks were created")

\* block_agent.py 406-412
BlockAgentFailure(e) == BrResult(FALSE, "Rich text block agent failed", 0, 0, e)

\* ------------------------------------------------------- the entry points
Entries == {"test_block_creation", "test_complete_pipeline"}

\* A dict an entry point returns.  step_failed is "(absent)" where the dict has no
\* such key; artifacts are the stage results it carries, <<key, value>> each.
Outcome(success, prefix, e, tag, artifacts, n) ==
    [done |-> TRUE, raised |-> FALSE, exc |-> "",
     value |-> [success |-> success, error |-> <<prefix, e>>, step_failed |-> tag,
                artifacts |-> artifacts, blocks_created |-> n]]

\* The exception leaves the entry point.
Propagates(e) == [done |-> TRUE, raised |-> TRUE, exc |-> e, value |-> NotYet]

\* main.py 608-615: the except of test_complete_pipeline
PipelineError(e) == Outcome(FALSE, "", e, "(absent)", <<>>, 0)

\* An exception raised in the body of an entry point: test_block_creation has no
\* handler, test_complete_pipeline has the one of 608-615.
Raised(e) == IF entry = "test_complete_pipeline" THEN PipelineError(e) ELSE Propagates(e)

\* main.py 99-104, 508-514
PreprocessingFailed ==
    Outcome(FALSE, "Preprocessing failed: ", pre'.error, "preprocessing", <<>>, 0)

\* A synthesizer failure let through as an overall success.
BlockCreationFailed_Passes == Outcome(TRUE, "", "", "(absent)", <<>>, 0)

\* main.py 131-144, 559-566
BlockCreationFailed ==
    Outcome(FALSE, "Block creation failed: ", br'.error, "block_creation",
            IF entry = "test_block_creation"
            THEN <<<<"preprocessing", pre>>, <<"rich_text", rt>>>>
            ELSE <<<<"preprocessing_result", pre>>, <<"rich_text_result", rt>>>>,
            0)

\* main.py 148-159, 575-606
PipelineSucceeded ==
    Outcome(TRUE, "", "", "(absent)",
            IF entry = "test_block_creation"
            THEN <<<<"step1_preprocessing", pre>>, <<"step2_rich_text_formatting", rt>>,
                   <<"step3_notion_blocks", br'>>>>
            ELSE <<<<"step1_preprocessing",
                     [block_instructions |-> pre.block_instructions,
                      format_instructions |-> pre.format_instructions,
                      result_text |-> pre.result_text]>>,
                   <<"step2_rich_text_formatting",
                     [segments_count |-> rt.segments_count,
                      rich_text_array |-> rt.rich_text_array, message |-> rt.message]>>,
                   <<"step3_notion_blocks",
                     [blocks_created |-> br'.blocks_created, message |-> br'.message]>>>>,
            br'.blocks_created)

\* main.py 117-123, 531-537
RichTextFailed ==
    Outcome(FALSE, "Rich text formatting failed: ", rt'.error, "rich_text_formatting",
            IF entry = "test_block_creation" THEN <<<<"preprocessing", pre>>>>
            ELSE <<<<"preprocessing_result", pre>>>>,
            0)

\* x[:120] raises nothing
Sliceable(x) == x.t \in {"str", "arr"}

\* What the oracles of a pipeline run may answer.
RunPartResponses ==
    {Raises, Answers("bare", Arr(<<>>))}
    \cup {Answers("fenced",
                  Obj(<<<<"block_instructions", b>>, <<"format_instructions", f>>>>)) :
            b \in BlockInstructions, f \in {Str(<<>>), Str(<<" ", "b">>)}}
RunContentResponses ==
    {[kind |-> "raise", text |-> <<>>], [kind |-> "text", text |-> <<"a", "\n", "b", "\n">>]}
RunAnnResponses ==
    {Raises, Answers("prose_before", Arr(<<>>))}
    \cup {Answers("fenced", Arr(a)) :
            a \in {<<>>, <<Num(1)>>, <<Seg(<<"a", "b">>, BoldRed)>>,
                   <<Seg(<<"a">>, PlainAnnotations), Seg(<<"b">>, BoldRed)>>}}

\* What a run has asked of its oracles so far: how often each llm.invoke was
\* reached, and which of them raised.
NoCalls ==
    [done |-> FALSE, partition_calls |-> 0, content_calls |-> 0, annotation_calls |-> 0,
     failed |-> {}]

Init ==
    /\ entry \in Entries
    /\ pc = "start"
    /\ pre = NotYet
    /\ rt = NotYet
    /\ br = NotYet
    /\ steps = <<>>
    /\ store = <<>>
    /\ result = NotReturned
    /\ call = [fn |-> "pipeline"]
    /\ ret = NoCalls

\* Step 1 of both entry points (main.py 98-113, 505-523).
Preprocess ==
    /\ pc = "start"
    /\ \E client \in ClientOutcomes, resp \in RunPartResponses,
          content_client \in ClientOutcomes, content_resp \in RunContentResponses :
         LET r == call_preprocessing_agent(client, resp, content_client, content_resp) IN
         /\ IF r.raised
            THEN /\ pre' = pre
                 /\ result' = Raised(r.exc)
                 /\ pc' = "done"
            ELSE /\ pre' = r.value
                 /\ IF ~r.value.success
                    THEN result' = PreprocessingFailed /\ pc' = "done"
                    ELSE IF /\ entry = "test_block_creation"
                            /\ ~(Sliceable(r.value.block_instructions)
                                 /\ Sliceable(r.value.format_instructions))
                    THEN result' = Raised(ErrType) /\ pc' = "done"
                    ELSE result' = result /\ pc' = "preprocessed"
         /\ ret' = [ret EXCEPT
                      !.partition_calls = @ + r.partition_calls,
                      !.content_calls = @ + r.content_calls,
                      !.failed = @ \cup (IF r.partition_calls = 1 /\ resp.kind = "raise"
                                         THEN {"partition"} ELSE {})
                                   \cup (IF r.content_calls = 1 /\ content_resp.kind = "raise"
                                         THEN {"content"} ELSE {})]
    /\ UNCHANGED <<call, entry, rt, br, steps, store>>

\* Step 2 of both entry points (main.py 116-128, 527-548).  test_complete_pipeline
\* then prints the first three segments, calling .get on each.
Format ==
    /\ pc = "preprocessed"
    /\ \E client \in ClientOutcomes, resp \in RunAnnResponses :
         LET r == create_formatted_rich_text_array(pre.format_instructions, pre.result_text,
                                                   client, resp)
             shown == {i \in 1..Len(r.value.rich_text_array) : i <= 3}
         IN /\ rt' = r.value
            /\ IF ~r.value.success
               THEN result' = RichTextFailed /\ pc' = "done"
               ELSE IF /\ entry = "test_complete_pipeline"
                       /\ \E i \in shown : ~IsDict(r.value.rich_text_array[i])
               THEN result' = Raised(ErrAttribute) /\ pc' = "done"
               ELSE result' = result /\ pc' = "formatted"
            /\ ret' = [ret EXCEPT
                         !.annotation_calls = @ + (IF r.invoked THEN 1 ELSE 0),
                         !.failed = @ \cup (IF r.invoked /\ r.value.fallback
                                            THEN {"annotation"} ELSE {})]
    /\ UNCHANGED <<call, entry, pre, br, steps, store>>

ErrHub == "hub.pull failed"

\* call_block_agent_with_rich_text up to its try (block_agent.py 241-370): the
\* client is built and the prompt is pulled with no handler around them.
StartAgent ==
    /\ pc = "formatted"
    /\ \E llm \in ClientOutcomes, react_prompt \in {"ok", "raise"} :
         IF llm = "raise" THEN result' = Raised(ErrClient) /\ pc' = "done"
         ELSE IF react_prompt = "raise" THEN result' = Raised(ErrHub) /\ pc' = "done"
         ELSE result' = result /\ pc' = "agent"
    /\ UNCHANGED <<call, ret, entry, pre, rt, br, steps, store>>

\* A remote append that puts the block before what the page holds.
_append_block_to_page_Front(doc, page_id, block) ==
    <<[page |-> page_id, block |-> block]>> \o doc

\* A remote append that replaces what the page holds.
_append_block_to_page_Replace(doc, page_id, block) == <<[page |-> page_id, block |-> block]>>

\* _append_block_to_page (block_tool.py 98-100) as the store executes it once it
\* accepts: the block goes after everything the page holds.
_append_block_to_page(doc, page_id, block) == Append(doc, [page |-> page_id, block |-> block])

\* What the executor gets when it runs the tool_func of each of calls, the store
\* doing with the append what oks allows.
ToolRuns(calls, oks) ==
    {[call |-> c, out |-> tool_func(c.tool, c.tool_input, store_ok)] :
        c \in calls, store_ok \in oks}

\* One iteration of agent_executor.invoke (block_agent.py 383): the agent oracle asks
\* for a tool, the executor runs its tool_func and records the step.
\* runs are the tool runs the iteration may bring; doc is the document before the
\* iteration and doc_after the document after it.
AgentIteration(runs, doc, doc_after) ==
    /\ pc = "agent"
    /\ Len(steps) < max_iterations
    /\ \E r \in runs :
         /\ steps' = Append(steps, Step(r.call.tool, r.call.tool_input, r.out))
         /\ doc_after = IF r.out.appended
                        THEN _append_block_to_page(doc, r.out.page, r.out.block)
                        ELSE doc
    /\ UNCHANGED <<call, ret, entry, pc, pre, rt, br, result>>

AgentStepOn(doc, doc_after) ==
    /\ Len(steps) < MaxSteps
    /\ AgentIteration(ToolRuns(AgentCalls(TEST_PAGE_ID, rt.rich_text_array), BOOLEAN),
                      doc, doc_after)

AgentStep == AgentStepOn(store, store')

\* The agent gives its final answer (or the executor stops it); block_agent.py
\* 388-404, then main.py 137-159, 559-606.
AgentFinish ==
    /\ pc = "agent"
    /\ br' = BlockAgentResult(steps, rt.rich_text_array)
    /\ result' = IF br'.success THEN PipelineSucceeded ELSE BlockCreationFailed
    /\ pc' = "done"
    /\ UNCHANGED <<call, ret, entry, pre, rt, steps, store>>

\* agent_executor.invoke raises, say on a failed oracle call (block_agent.py 406-412).
AgentRaise ==
    /\ pc = "agent"
    /\ br' = BlockAgentFailure(ErrOracle)
    /\ result' = BlockCreationFailed
    /\ pc' = "done"
    /\ UNCHANGED <<call, ret, entry, pre, rt, steps, store>>

Next ==
    \/ Preprocess
    \/ Format
    \/ StartAgent
    \/ AgentStep
    \/ AgentFinish
    \/ AgentRaise

Spec == Init /\ [][Next]_vars

\* ------------------------------------------------ the loop of stage 3 on its own
\* Stage 3 entered after two good stages, with an agent oracle that asks for one
\* more paragraph at every iteration until the executor stops it, or gives its
\* final answer, or fails.  The store takes the first call.accepts appends of the
\* run and rejects the rest.
Accepts == {0, 1, max_iterations}

LoopRichText == PlainResult(<<"a">>)

LoopCall ==
    ToolCall("Add Paragraph Block", "bare",
             <<<<"page_id", TEST_PAGE_ID>>,
               <<"rich_text_array", Arr(LoopRichText.rich_text_array)>>>>)

\* The run of LoopCall whose append the store takes, and the one it rejects.
LoopAccepted == Only(ToolRuns({LoopCall}, {TRUE}))
LoopRejected == Only(ToolRuns({LoopCall}, {FALSE}))

LoopInit ==
    /\ entry \in Entries
    /\ pc = "agent"
    /\ pre = PreResult(TRUE, Str(<<"a">>), Str(<<>>), <<"a">>, "")
    /\ rt = LoopRichText
    /\ br = NotYet
    /\ steps = <<>>
    /\ store = <<>>
    /\ result = NotReturned
    /\ call \in [fn : {"agent_loop"}, accepts : Accepts]
    /\ ret = NoCalls

LoopStep ==
    /\ call.fn = "agent_loop"
    /\ AgentIteration(IF Len(store) < call.accepts THEN {LoopAccepted} ELSE {LoopRejected},
                      store, store')

LoopNext ==
    \/ LoopStep
    \/ AgentFinish
    \/ AgentRaise

\* Every oracle call and every append returns or raises, and the executor then
\* goes on: the loop is never left waiting.
SpecLoop == LoopInit /\ [][LoopNext]_vars /\ WF_vars(LoopNext)

\* ------------------------------------------------ a second run on the same page
\* Both entry points write to the hard-coded TEST_PAGE_ID (main.py 16) through the
\* module's one client (block_tool.py 8), so a second run, whatever it computes in
\* its own locals, shows to this run only as blocks appended to the same page at
\* any moment.  Its entries carry a mark, which the store does not hold.
MaxOther == 1
OtherRunBlocks == {_create_structural_block("divider", <<>>)}

IsOther(e) == "run" \in DOMAIN e
Own(doc) == SelectSeq(doc, LAMBDA e : ~IsOther(e))
Foreign(doc) == SelectSeq(doc, IsOther)

OtherRunAppends ==
    /\ call.fn = "pipeline"
    /\ Len(Foreign(store)) < MaxOther
    /\ \E block \in OtherRunBlocks :
         \E d \in {_append_block_to_page(store, TEST_PAGE_ID, block)} :
           store' = [i \in 1..Len(d) |->
                        IF i = Len(d) THEN [page |-> d[i].page, block |-> d[i].block,
                                            run |-> "other"]
                        ELSE d[i]]
    /\ UNCHANGED <<call, ret, entry, pc, pre, rt, br, steps, result>>

SpecPair == Init /\ [][Next \/ OtherRunAppends]_vars

\* ------------------------------------------------------------ claims, stage 2
RECURSIVE ConcatContent(_)
ConcatContent(arr) ==
    IF arr = <<>> THEN <<>> ELSE Head(arr).v.content \o ConcatContent(Tail(arr))

AnnotateReturned == call.fn = "create_formatted_rich_text_array" /\ ret.done

\* The oracle path is taken: instructions are a non-blank str and a client exists.
OraclePathTaken ==
    /\ call.format_instructions.t = "str"
    /\ \E i \in 1..Len(call.format_instructions.v) : ~IsSpace(call.format_instructions.v[i])
    /\ call.client = "ok"

\* The oracle raised, wrote something that is not JSON, or wrote JSON that is no array.
OracleFailed ==
    \/ call.resp.kind = "raise"
    \/ call.resp.wrap \in BrokenWraps
    \/ call.resp.answer.t # "arr"

\* C1: create_formatted_rich_text_array never hard-fails: it returns success = TRUE for
\* every format_instructions, result_text and oracle behaviour, and when the oracle
\* raises, answers with non-JSON or with JSON that is not an array, the result is the
\* single segment holding all of result_text, every style flag false, color default.
C1_NeverHardFails ==
    AnnotateReturned =>
        /\ ~ret.raised
        /\ ret.value.success
        /\ (OraclePathTaken /\ OracleFailed) =>
              ret.value.rich_text_array = <<Seg(call.result_text, PlainAnnotations)>>

C1_Witness ==
    /\ AnnotateReturned
    /\ OraclePathTaken
    /\ call.resp.kind = "text"
    /\ call.resp.wrap = "prose_before"
    /\ call.resp.answer.t = "arr"
    /\ call.result_text = <<"a", "b">>
    /\ ret.value.success
    /\ ret.value.segments_count = 1

\* C2: every result not tagged fallback has segments whose contents, concatenated in
\* order, are result_text.
C2_SegmentCoverage ==
    (AnnotateReturned /\ ~ret.value.fallback) =>
        /\ \A i \in 1..Len(ret.value.rich_text_array) : ret.value.rich_text_array[i].t = "seg"
        /\ ConcatContent(ret.value.rich_text_array) = call.result_text


\* ------------------------------------------------------------ claims, stage 1
SplitReturned == call.fn = "call_preprocessing_agent" /\ ret.done

\* The partition oracle was reached and wrote an answer.
PartitionAnswered == call.client = "ok" /\ call.resp.kind = "text"

\* The answer is not JSON, not an object, or lacks one of the two keys.
ShapeViolation ==
    \/ call.resp.wrap \in BrokenWraps
    \/ call.resp.answer.t # "obj"
    \/ \A i \in 1..Len(call.resp.answer.v) : call.resp.answer.v[i][1] # "block_instructions"
    \/ \A i \in 1..Len(call.resp.answer.v) : call.resp.answer.v[i][1] # "format_instructions"

AnswerValue(k) ==
    call.resp.answer.v[CHOOSE i \in 1..Len(call.resp.answer.v) : call.resp.answer.v[i][1] = k][2]

\* C3: a structural response that is not JSON, not an object, or lacks
\* block_instructions or format_instructions makes call_preprocessing_agent return
\* success = FALSE with block_instructions, format_instructions and result_text all
\* empty; it returns success = TRUE only for an object holding both keys.
C3_StrictStructuralValidation ==
    (SplitReturned /\ ~ret.raised) =>
        /\ (PartitionAnswered /\ ShapeViolation) =>
              /\ ~ret.value.success
              /\ ret.value.block_instructions = Str(<<>>)
              /\ ret.value.format_instructions = Str(<<>>)
              /\ ret.value.result_text = <<>>
        /\ ret.value.success => (PartitionAnswered /\ ~ShapeViolation)

C3_Witness ==
    /\ SplitReturned
    /\ PartitionAnswered
    /\ call.resp.wrap = "fenced"
    /\ call.resp.answer.t = "obj"
    /\ Len(call.resp.answer.v) = 1
    /\ call.content_client = "ok"
    /\ call.content_resp.kind = "text"
    /\ ~ret.value.success

\* C4: when the structural response is valid and the content oracle call fails,
\* call_preprocessing_agent returns success = TRUE with result_text empty and with
\* block_instructions and format_instructions as the structural oracle gave them.
C4_ContentFailureDegrades ==
    (/\ SplitReturned
     /\ PartitionAnswered
     /\ ~ShapeViolation
     /\ call.content_client = "ok"
     /\ call.content_resp.kind = "raise") =>
        /\ ~ret.raised
        /\ ret.value.success
        /\ ret.value.result_text = <<>>
        /\ ret.value.block_instructions = AnswerValue("block_instructions")
        /\ ret.value.format_instructions = AnswerValue("format_instructions")

C4_Witness ==
    /\ SplitReturned
    /\ PartitionAnswered
    /\ ~ShapeViolation
    /\ call.content_client = "ok"
    /\ call.content_resp.kind = "raise"
    /\ call.resp.wrap = "fenced_nolang"
    /\ ret.value.success
    /\ ret.value.format_instructions = Str(<<" ", "b">>)
    /\ ret.content_calls = 1


\* ------------------------------------------------------------ claims, pipeline
StageTags == {"preprocessing", "rich_text_formatting", "block_creation"}

EntryEnded == entry \in Entries /\ result.done
EntryReturnedFailure == EntryEnded /\ ~result.raised /\ ~result.value.success

Carries(x) == \E i \in 1..Len(result.value.artifacts) : result.value.artifacts[i][2] = x

\* An append reached the store and the store refused it.
StoreRejected == \E i \in 1..Len(steps) : steps[i].sent /\ ~steps[i].appended

\* A stage did not deliver: the run ended before the synthesizer reported success.
StageFailed == br = NotYet \/ ~br.success

\* C5: no exception leaves test_block_creation or test_complete_pipeline; when a
\* stage fails, the entry point returns a result with success = FALSE whose
\* step_failed names a stage.
C5_NoExceptionLeavesEntryPoint ==
    EntryEnded =>
        /\ ~result.raised
        /\ StageFailed => (~result.value.success /\ result.value.step_failed \in StageTags)

\* C6: every failure result an entry point returns carries the tag of a stage, the raw
\* error message, and the result of every stage that succeeded before; a failure of
\* the synthesizer is tagged block_creation and carries the preprocessing result and
\* the rich-text result.
C6_FailureCarriesTagErrorArtifacts ==
    EntryReturnedFailure =>
        /\ result.value.step_failed \in StageTags
        /\ result.value.error[2] # ""
        /\ (pre # NotYet /\ pre.success) => Carries(pre)
        /\ (rt # NotYet /\ rt.success) => Carries(rt)
        /\ (br # NotYet) => (result.value.step_failed = "block_creation"
                               /\ Carries(pre) /\ Carries(rt))

\* C7: when the store rejects an append during a run, the run is fatal: the result
\* has success = FALSE and the stage tag append.
C7_StoreRejectionIsFatal ==
    (EntryEnded /\ StoreRejected) =>
        /\ ~result.raised
        /\ ~result.value.success
        /\ result.value.step_failed = "append"

\* C8: the blocks_created a run reports is the number of blocks appended to the
\* document during the run.
C8_BlocksCreatedCountsAppends ==
    (br # NotYet /\ br.success) => br.blocks_created = Len(store)

\* C9: call_block_agent_with_rich_text reports success only when at least one block
\* was made, and failure when none was.
C9_SuccessNeedsOneBlock ==
    (br # NotYet) => (br.success => Len(store) >= 1)

\* The rich_text of a stored block, <<>> for a block that bears no text.
StoredRichText(block) ==
    LET body == Get(block, Get(block, "type").v[1]) IN
    IF HasKey(body, "rich_text") THEN Get(body, "rich_text").v ELSE <<>>

\* C10: every text-bearing block appended in stage 3 carries segments of the stage-2
\* sequence, content and annotations unchanged.
C10_BlocksCarryStage2Segments ==
    \A k \in 1..Len(store) :
        \A i \in 1..Len(StoredRichText(store[k].block)) :
            \E j \in 1..Len(rt.rich_text_array) :
                StoredRichText(store[k].block)[i] = rt.rich_text_array[j]


\* ------------------------------------------------------------ claims, block tools
ToolReturned == call.fn = "tool_func" /\ ret.done

\* The input is JSON and names the page.
PageGiven ==
    /\ call.wrap \in CleanWraps
    /\ HasKey(call.data, "page_id")
    /\ Get(call.data, "page_id") = TEST_PAGE_ID

\* The input gives no content, or an empty rich_text_array.
NoContentGiven ==
    IF HasKey(call.data, "rich_text_array") THEN Get(call.data, "rich_text_array") = Arr(<<>>)
    ELSE ~HasKey(call.data, "text")

\* C11: every text-bearing block sent to the store carries a non-empty segment
\* sequence; a tool input with no content or an empty rich_text_array makes the block
\* carry one plain segment with empty content, not an empty sequence or an error.
C11_TextBlocksCarrySegments ==
    (ToolReturned /\ call.tool \in TextTools) =>
        /\ ret.out.sent => StoredRichText(ret.out.block) # <<>>
        /\ (PageGiven /\ NoContentGiven) =>
              /\ ret.out.sent
              /\ StoredRichText(ret.out.block) = <<Seg(<<>>, PlainAnnotations)>>


\* ------------------------------------------------------------ claims, lists
\* The text of a segment sequence.
RECURSIVE TextOf(_)
TextOf(items) ==
    IF items = <<>> THEN <<>>
    ELSE (IF items[1].t = "seg" THEN items[1].v.content ELSE <<>>) \o TextOf(Tail(items))

\* The text holds more than one line, that is more than one list item.
MultiItem(text) ==
    \E i, j, k \in 1..Len(text) :
        i < j /\ j < k /\ ~IsSpace(text[i]) /\ text[j] = "\n" /\ ~IsSpace(text[k])

IsListBlock(block) ==
    Get(block, "type").v[1] \in {"bulleted_list_item", "numbered_list_item"}

\* C12: no list block sent to the store in stage 3 holds the text of more than one
\* item: list items are appended one block each.
C12_ListAtomicity ==
    \A k \in 1..Len(store) :
        IsListBlock(store[k].block) => ~MultiItem(TextOf(StoredRichText(store[k].block)))


\* ------------------------------------------------------------ claims, blank instructions
BlankInstructions ==
    /\ call.format_instructions.t = "str"
    /\ \A i \in 1..Len(call.format_instructions.v) : IsSpace(call.format_instructions.v[i])

\* C13: with format_instructions empty or whitespace-only,
\* create_formatted_rich_text_array returns success = TRUE with exactly one segment,
\* its content result_text and its annotations all false with color default, and
\* it does not invoke the oracle.
C13_BlankInstructionsPlainSegment ==
    (AnnotateReturned /\ BlankInstructions) =>
        /\ ret.value.success
        /\ ret.value.rich_text_array = <<Seg(call.result_text, PlainAnnotations)>>
        /\ ret.value.segments_count = 1
        /\ ~ret.invoked

C13_Witness ==
    /\ AnnotateReturned
    /\ call.format_instructions = Str(<<" ", "\n">>)
    /\ call.result_text = <<"a", "b">>
    /\ call.client = "ok"
    /\ call.resp.kind = "text"
    /\ call.resp.wrap = "bare"
    /\ ~ret.value.fallback
    /\ ~ret.invoked


\* ------------------------------------------------------------ claims, stage order
Succeeded(stage) == stage # NotYet /\ stage.success

\* Stage 2 ran on stage 1's output only if stage 1 succeeded, stage 3 on stage 2's only
\* if stage 2 succeeded; the run reports success exactly when all three succeeded,
\* and then exposes the three artifacts.
ForwardOnly ==
    /\ rt # NotYet => Succeeded(pre)
    /\ (rt # NotYet /\ (rt.fallback \/ pre.format_instructions = Str(<<>>))) =>
          rt.rich_text_array = <<Seg(pre.result_text, PlainAnnotations)>>
    /\ (pc = "agent" \/ steps # <<>> \/ br # NotYet) => Succeeded(rt)
    /\ (EntryEnded /\ ~result.raised) =>
          /\ result.value.success <=> (Succeeded(pre) /\ Succeeded(rt) /\ Succeeded(br))
          /\ result.value.success =>
                /\ Len(result.value.artifacts) = 3
                /\ result.value.artifacts[1][1] = "step1_preprocessing"
                /\ result.value.artifacts[2][1] = "step2_rich_text_formatting"
                /\ result.value.artifacts[3][1] = "step3_notion_blocks"
                /\ result.value.artifacts[2][2].rich_text_array = rt.rich_text_array
                /\ result.value.artifacts[3][2].blocks_created = br.blocks_created
                /\ entry = "test_block_creation" => (Carries(pre) /\ Carries(rt) /\ Carries(br))

\* A stage that has returned is not run again, and a finished run stays finished.
AtMostOnce ==
    /\ pre # NotYet => pre' = pre
    /\ rt # NotYet => rt' = rt
    /\ br # NotYet => br' = br
    /\ result.done => result' = result
    /\ \/ steps' = steps
       \/ /\ br = NotYet
          /\ Len(steps') = Len(steps) + 1
          /\ SubSeq(steps', 1, Len(steps)) = steps

\* C14: in every run the stages execute strictly forward and at most once each, each
\* on the outputs of the stages before it; the run reports success = TRUE exactly
\* when all three stages succeeded, and then exposes all three artifacts.
C14_StagesRunForwardOnce == [](ForwardOnly) /\ [][AtMostOnce]_vars

C14_Witness ==
    /\ EntryEnded
    /\ entry = "test_block_creation"
    /\ ~result.raised
    /\ result.value.success
    /\ Len(steps) = 2
    /\ Len(store) = 1
    /\ Succeeded(br)


\* ------------------------------------------------------------ claims, oracle calls
\* C15: every run of call_preprocessing_agent calls the oracle twice, once to
\* partition and once for result_text, whatever the partition call gave.
C15_TwoOracleCalls ==
    SplitReturned => (ret.partition_calls = 1 /\ ret.content_calls = 1)

\* C15, as the code has it: a run makes at most one partition call and at most one
\* result_text call; the partition call is made once its client is built, and the
\* result_text call is made only after the partition answer passed validation.
C15_ContentCallAfterValidPartition ==
    SplitReturned =>
        /\ ret.partition_calls = (IF call.client = "ok" THEN 1 ELSE 0)
        /\ ret.content_calls =
              (IF /\ call.client = "ok"
                  /\ PartitionAnswered
                  /\ ~ShapeViolation
                  /\ call.content_client = "ok"
               THEN 1 ELSE 0)

C15_Witness ==
    /\ SplitReturned
    /\ PartitionAnswered
    /\ ShapeViolation
    /\ call.resp.wrap = "bare"
    /\ call.content_client = "ok"
    /\ call.content_resp.kind = "text"
    /\ ret.partition_calls = 1
    /\ ret.content_calls = 0


\* ---------------------------------------------------------------- C16
AppendReturned == ret.done /\ call.fn \in {"append_blocks_to_page", "append_blocks_to_page_tool"}

\* The page and the block list the caller of an append handed over.
GivenPage == IF call.fn = "append_blocks_to_page" THEN call.page_id ELSE Get(call.data, "page_id")

GivenBlocks ==
    IF call.fn = "append_blocks_to_page" THEN call.blocks
    ELSE IF HasKey(call.data, "blocks") THEN Get(call.data, "blocks") ELSE Arr(<<>>)

\* C16: an append issues at most one remote call and never retries or splits; when
\* it reports success that one call carried the whole list in the caller's order and
\* the document gained exactly those blocks, in order, after what it held; when it
\* reports failure (the remote call rejected included) the document gained nothing.
C16_AppendIsOneAtomicCall ==
    AppendReturned =>
        /\ Len(ret.remote) <= 1
        /\ ret.value.success =>
             /\ ret.remote = <<[page |-> GivenPage, children |-> GivenBlocks]>>
             /\ ret.doc = call.doc \o DocEntries(GivenPage, GivenBlocks.v)
             /\ ret.value.blocks_count = Num(Len(GivenBlocks.v))
        /\ ~ret.value.success => ret.doc = call.doc

\* A list of two blocks whose single remote call the store rejected.
C16_Witness ==
    /\ AppendReturned
    /\ GivenBlocks.t = "arr" /\ Len(GivenBlocks.v) = MaxBlocks
    /\ ~call.store_ok
    /\ Len(ret.remote) = 1
    /\ ~ret.value.success


\* ------------------------------------------------------------ claims, tables
TableSent == ToolReturned /\ call.tool = "Add Table Block" /\ ret.out.sent

\* The dimension the table function is called with: the input's, else the default
\* of the tool.
TableDim(k) ==
    IF HasKey(call.data, k) THEN Get(call.data, k).v
    ELSE Get(Obj(OptionalParams("Add Table Block")), k).v

EmptyCell == Arr(<<Seg(<<>>, NoAnnotations)>>)

\* C17: for every table_width w and table_height h, the table block handed to the
\* remote call holds exactly h rows, each row holds exactly w cells, every cell is
\* one text segment with empty content, and the block's table_width field is w.
C17_TableGrid ==
    TableSent =>
        LET table == Get(ret.out.block, "table")
            rows == Get(table, "children")
        IN /\ Get(table, "table_width") = Num(TableDim("table_width"))
           /\ rows.t = "arr"
           /\ Len(rows.v) = TableDim("table_height")
           /\ \A r \in 1..Len(rows.v) :
                LET cells == Get(Get(rows.v[r], "table_row"), "cells")
                IN /\ Get(rows.v[r], "type") = Str(<<"table_row">>)
                   /\ cells.t = "arr"
                   /\ Len(cells.v) = TableDim("table_width")
                   /\ \A c \in 1..Len(cells.v) : cells.v[c] = EmptyCell

\* A table of the largest width and height was sent.
C17_Witness ==
    /\ TableSent
    /\ TableDim("table_width") = MaxDim
    /\ TableDim("table_height") = MaxDim
    /\ Len(Get(Get(ret.out.block, "table"), "children").v) = MaxDim


\* The input names neither dimension of the table.
NoDimensions == ~HasKey(call.data, "table_width") /\ ~HasKey(call.data, "table_height")

\* C18: a table created without explicit dimensions has width 3 and height 4.
C18_DefaultTableIs3By4 ==
    (TableSent /\ NoDimensions) =>
        /\ Get(Get(ret.out.block, "table"), "table_width") = Num(3)
        /\ Len(Get(Get(ret.out.block, "table"), "children").v) = 4


\* ------------------------------------------------------------ claims, media
MediaReturned == ToolReturned /\ call.tool \in MediaTools

\* The name of the tool's URL parameter, and the body of the block sent.
UrlParam == RequiredParams(call.tool)[2]
MediaBody == Get(ret.out.block, BlockTypeOf(call.tool))

\* The input names no URL, or an empty one.
NoUrl == ~HasKey(call.data, UrlParam) \/ Get(call.data, UrlParam) = Str(<<>>)

\* C19: every media block sent carries the caller's URL, trimmed of surrounding
\* whitespace: under external.url (with type external) for image and video, under
\* url for embed, link_preview and bookmark.  An input whose URL is missing or empty
\* sends nothing and returns an error.
C19_MediaCarriesUrl ==
    MediaReturned =>
        /\ ret.out.sent =>
             /\ HasKey(call.data, UrlParam)
             /\ Get(call.data, UrlParam).t = "str"
             /\ Get(ret.out.block, "type") = Str(<<BlockTypeOf(call.tool)>>)
             /\ IF BlockTypeOf(call.tool) \in {"image", "video"}
                THEN /\ HasKey(MediaBody, "type") /\ HasKey(MediaBody, "external")
                     /\ Get(MediaBody, "type") = Str(<<"external">>)
                     /\ Get(MediaBody, "external")
                          = Obj(<<<<"url", Str(StrStrip(Get(call.data, UrlParam).v))>>>>)
                     /\ ~HasKey(MediaBody, "url")
                ELSE /\ HasKey(MediaBody, "url")
                     /\ Get(MediaBody, "url") = Str(StrStrip(Get(call.data, UrlParam).v))
                     /\ ~HasKey(MediaBody, "external")
        /\ (call.wrap \in CleanWraps /\ NoUrl) =>
             /\ ~ret.out.sent
             /\ ~ret.out.success
             /\ ret.out.error # ""

\* An image whose URL came with surrounding whitespace was sent.
C19_Witness ==
    /\ MediaReturned
    /\ call.tool = "Add Image Block"
    /\ ret.out.sent
    /\ Get(call.data, UrlParam) = Str(<<" ", "u", "\n">>)
    /\ Get(Get(MediaBody, "external"), "url") = Str(<<"u">>)


\* The secondary field of the tool's block variant, and whether the input gives one.
NoteParam == IF call.tool = "Add URL Block" THEN "title" ELSE "caption"
NoteGiven == HasKey(call.data, NoteParam) /\ ~Falsy(Get(call.data, NoteParam))

\* The block sent carries the note given, as a string or as the text of segments.
NoteCarried ==
    /\ HasKey(MediaBody, NoteParam)
    /\ \/ Get(MediaBody, NoteParam) = Get(call.data, NoteParam)
       \/ /\ Get(MediaBody, NoteParam).t = "arr"
          /\ TextOf(Get(MediaBody, NoteParam).v) = Get(call.data, NoteParam).v

\* C20: every media block sent carries the secondary field of its variant: image,
\* video, embed and bookmark blocks the caption the caller gave, a url_link block
\* the title the caller gave.
C20_MediaCarriesNote ==
    (MediaReturned /\ ret.out.sent /\ NoteGiven) => NoteCarried


\* ------------------------------------------------------------ claims, encoding
\* The encoding of a request as a function of the request alone.
PureEncoding(q) ==
    CASE q.kind = "text" -> _create_block(q.block_type, q.content, q.kwargs)
      [] q.kind = "structural" -> _create_structural_block(q.block_type, q.kwargs)
      [] q.kind = "media" -> _create_media_block(q.block_type, q.content, q.kwargs).block

\* C21: block encoding is a pure function of the block: after any sequence of
\* earlier builder calls, every encoding built (the latest and every earlier one)
\* is the one its block type, content and options determine, equal requests have
\* equal encodings, and the shared BLOCK_CONFIGS table is as the module defined it.
C21_EncodingIsPure ==
    call.fn = "encode" =>
        /\ ret.configs = ConfigTable
        /\ \A i \in 1..Len(ret.built) : ret.built[i].block = PureEncoding(ret.built[i])
        /\ \A i, j \in 1..Len(ret.built) :
             (/\ ret.built[i].kind = ret.built[j].kind
              /\ ret.built[i].block_type = ret.built[j].block_type
              /\ ret.built[i].content = ret.built[j].content
              /\ ret.built[i].kwargs = ret.built[j].kwargs)
                => ret.built[i].block = ret.built[j].block

\* A to_do block built with the default options after one built with checked=true.
C21_Witness ==
    /\ call.fn = "encode"
    /\ Len(ret.built) = 2
    /\ ret.built[1].block_type = "to_do" /\ ret.built[1].kwargs = <<<<"checked", Bool(TRUE)>>>>
    /\ ret.built[2].block_type = "to_do" /\ ret.built[2].kwargs = <<>>
    /\ Get(Get(ret.built[1].block, "to_do"), "checked") = Bool(TRUE)
    /\ Get(Get(ret.built[2].block, "to_do"), "checked") = Bool(FALSE)


\* ------------------------------------------------------------ claims, two runs
\* A step of this run as it would be with the page to itself.
AloneStep ==
    \/ Preprocess
    \/ Format
    \/ StartAgent
    \/ AgentFinish
    \/ AgentRaise
    \/ AgentStepOn(Own(store), Own(store'))

\* C22: two runs whose steps interleave arbitrarily are independent.  Every step
\* either is a step of this run exactly as the run takes it alone, on the blocks it
\* has left itself, and leaves the other run's blocks as they are and in order; or
\* is a step of the other run, which changes nothing of this run: not its stage
\* results, its result, nor the blocks it has left in the page and their order.
C22_RunsAreIndependent ==
    [][\/ /\ AloneStep
          /\ Foreign(store') = Foreign(store)
       \/ /\ UNCHANGED <<entry, pc, pre, rt, br, steps, result>>
          /\ Own(store') = Own(store)
          /\ Len(Foreign(store')) = Len(Foreign(store)) + 1
          /\ SubSeq(Foreign(store'), 1, Len(Foreign(store))) = Foreign(store)]_vars

\* This run succeeded with two blocks, the other run's block between them.
C22_Witness ==
    /\ pc = "done"
    /\ ~result.raised
    /\ result.value.success
    /\ Len(store) = 3
    /\ ~IsOther(store[1]) /\ IsOther(store[2]) /\ ~IsOther(store[3])


\* ------------------------------------------------------------ claims, retries
\* The entry point returned a stage failure.
EndedAsStageFailure ==
    /\ pc = "done"
    /\ ~result.raised
    /\ ~result.value.success
    /\ result.value.step_failed \in StageTags

\* The remote append of step i was rejected.
AppendFailedAt(i) == steps[i].sent /\ ~steps[i].appended

\* C23: the pipeline never auto-retries a failed call.  Within one run each of the
\* partition, content and annotation oracles is invoked at most once and each
\* block-tool invocation issues at most one remote append; a failed oracle or store
\* call ends as a stage failure (for the annotation oracle, as the stage-2 fallback),
\* and the same call is never issued again after it failed.
C23_NoAutoRetry ==
    call.fn = "pipeline" =>
        /\ ret.partition_calls <= 1
        /\ ret.content_calls <= 1
        /\ ret.annotation_calls <= 1
        /\ Len(Own(store)) <= Len(steps)
        /\ "partition" \in ret.failed => EndedAsStageFailure
        /\ "content" \in ret.failed => EndedAsStageFailure
        /\ "annotation" \in ret.failed => (rt.success /\ rt.fallback)
        /\ \A i \in 1..Len(steps) :
             AppendFailedAt(i) =>
                /\ pc = "done" => EndedAsStageFailure
                /\ \A j \in (i + 1)..Len(steps) :
                     ~(steps[j].tool = steps[i].tool
                       /\ steps[j].tool_input = steps[i].tool_input)


\* ------------------------------------------------------------ claims, append-only
\* The steps whose remote append the store accepted.
Committed == {i \in 1..Len(steps) : steps[i].appended}

\* C24: the document's block sequence is append-only under the pipeline.  No step
\* removes, reorders or rewrites a block already committed: the document before a
\* step is a prefix of the document after it, and at every moment, the end of a
\* failed or abandoned run included, it holds one block per accepted append.
C24_AppendOnly ==
    /\ [](call.fn = "pipeline" => Len(store) = Cardinality(Committed))
    /\ [][/\ Len(store') >= Len(store)
          /\ SubSeq(store', 1, Len(store)) = store]_vars

\* Stage 3 failed after two blocks were appended, and both are in the document.
C24_Witness ==
    /\ pc = "done"
    /\ br # NotYet
    /\ ~br.success
    /\ ~result.value.success
    /\ Cardinality(Committed) = 2
    /\ Len(store) = 2
    /\ store[1].block # store[2].block


\* ------------------------------------------------------------ claims, tool errors
\* A member the input does not name, or names with an empty value.
MissingOrEmpty(k) ==
    \/ ~HasKey(call.data, k)
    \/ Get(call.data, k) \in {Str(<<>>), Null}

\* The input fails the tool's own validation: it is no JSON, its page_id or a
\* required URL is missing or empty, or its arguments do not fit the block kind
\* (content for a block that takes none, no content for a text block).
FailsValidation ==
    \/ call.wrap \in BrokenWraps
    \/ \E i \in 1..Len(RequiredParams(call.tool)) : MissingOrEmpty(RequiredParams(call.tool)[i])
    \/ (call.tool \notin TextTools
        /\ (HasKey(call.data, "text") \/ HasKey(call.data, "rich_text_array")))
    \/ (call.tool \in TextTools
        /\ ~HasKey(call.data, "text") /\ ~HasKey(call.data, "rich_text_array"))

\* C25: a block tool function never raises: for every input string and every
\* store behaviour it returns a result with a success flag, and when it fails on
\* its own validation it issues no remote append, so the document is unchanged,
\* and reports success=false with an error.
C25_ToolNeverRaises ==
    ToolReturned =>
        /\ ~ret.raised
        /\ ret.out.success \in BOOLEAN
        /\ ret.out.success = (ret.out.error = "")
        /\ ret.out.appended => ret.out.sent
        /\ FailsValidation =>
             /\ ~ret.out.success
             /\ ~ret.out.sent
             /\ ~ret.out.appended

\* An image tool call with an empty URL, on a store that would accept.
C25_Witness ==
    /\ ToolReturned
    /\ call.tool = "Add Image Block"
    /\ call.wrap \in CleanWraps
    /\ PageGiven
    /\ HasKey(call.data, "image_url") /\ Get(call.data, "image_url") = Str(<<>>)
    /\ call.store_ok
    /\ ~ret.out.success
    /\ ~ret.out.sent


\* ------------------------------------------------------------ claims, append order
\* The indices of the committed steps, in the order of the invocations.
CommittedOrder == SelectSeq([i \in 1..Len(steps) |-> i], LAMBDA i : steps[i].appended)

\* What the invocation of step i hands to the store when the store accepts: the
\* page named in its input and the one block built from it.
Handed(i) ==
    Only({[page |-> out.page, block |-> out.block] :
            out \in {tool_func(steps[i].tool, steps[i].tool_input, TRUE)}})

\* C26: each successful block-tool invocation issued exactly one remote append,
\* carrying exactly one block to the page_id given in that invocation, and the
\* blocks of the run are in the document in the order of the tool invocations.
C26_OneAppendPerInvocationInOrder ==
    call.fn = "pipeline" =>
        /\ \A i \in 1..Len(steps) :
             steps[i].observation.success => (steps[i].sent /\ steps[i].appended)
        /\ Len(store) = Len(CommittedOrder)
        /\ \A k \in 1..Len(store) : store[k] = Handed(CommittedOrder[k])

\* Two successful invocations with different blocks, both in the document.
C26_Witness ==
    /\ call.fn = "pipeline"
    /\ Len(steps) = 2
    /\ steps[1].observation.success /\ steps[2].observation.success
    /\ Len(store) = 2
    /\ store[1].block # store[2].block
    /\ store[1].page = TEST_PAGE_ID /\ store[2].page = TEST_PAGE_ID


\* ------------------------------------------------------------ claims, fallback tag
\* The oracle was asked and its answer parsed as a JSON array.
ParsedArray ==
    /\ OraclePathTaken
    /\ ~OracleFailed

\* C27: the fallback tag separates formatted from degraded results.  A result of
\* create_formatted_rich_text_array carries fallback=true exactly when the call
\* left the blank-instructions case for the oracle path and that path failed (an
\* exception, the client's included, unparsable output, or output that is no
\* array); the results of the blank-instructions case and of a successfully parsed
\* array never carry it.
C27_FallbackTag ==
    AnnotateReturned =>
        /\ ret.value.fallback \in BOOLEAN
        /\ ret.value.fallback = (~BlankInstructions /\ ~ParsedArray)
        /\ BlankInstructions => (~ret.value.fallback /\ ~ret.invoked)
        /\ ParsedArray => (~ret.value.fallback /\ ret.invoked)
        /\ ret.value.fallback =>
             ret.value.rich_text_array = <<Seg(call.result_text, PlainAnnotations)>>

\* The oracle answered a fenced JSON object, which is no array: the result is tagged.
C27_Witness ==
    /\ AnnotateReturned
    /\ OraclePathTaken
    /\ call.resp.kind = "text"
    /\ call.resp.wrap = "fenced"
    /\ call.resp.answer.t = "obj"
    /\ ret.invoked
    /\ ret.value.fallback


\* ------------------------------------------------------------ claims, headings
HeadingSent == ToolReturned /\ call.tool = "Add Heading Block" /\ ret.out.sent

HeadingTypes == {Str(<<"heading_1">>), Str(<<"heading_2">>), Str(<<"heading_3">>)}

\* The block type the claim gives a level: heading_<level> for 1..3, else heading_1.
HeadingTypeFor(level) ==
    CASE level = 2 -> Str(<<"heading_2">>)
      [] level = 3 -> Str(<<"heading_3">>)
      [] OTHER -> Str(<<"heading_1">>)

\* C28: every heading block sent to the store has level 1, 2 or 3: an integer
\* level in 1..3 gives heading_<level>, every other integer level gives heading_1,
\* and a heading tool call without a level gives heading_1.
C28_HeadingLevels ==
    HeadingSent =>
        /\ Get(ret.out.block, "type") \in HeadingTypes
        /\ ~HasKey(call.data, "level") => Get(ret.out.block, "type") = Str(<<"heading_1">>)
        /\ (HasKey(call.data, "level") /\ Get(call.data, "level").t = "num") =>
              Get(ret.out.block, "type") = HeadingTypeFor(Get(call.data, "level").v)


\* ------------------------------------------------------------------ C29
\* The result envelope of stage 3 has been made: the success one or a failure one.
EnvelopeReturned == pc = "done" /\ br # NotYet /\ br.success \in BOOLEAN

\* C29: stage 3 always ends with a result envelope.  Whatever the agent oracle
\* keeps asking for, the loop runs at most 100 iterations, the run appends at
\* most 100 blocks, and the success or the failure envelope is returned in the end.
C29_StageThreeTerminates ==
    /\ [](Len(steps) <= 100 /\ Len(store) <= 100)
    /\ <>EnvelopeReturned
    /\ [][EnvelopeReturned => (EnvelopeReturned' /\ UNCHANGED <<steps, store>>)]_vars

\* The oracle asked for a block a hundred times, the store took every one, and the
\* executor stopped the loop: the success envelope counts a hundred steps.
C29_Witness ==
    /\ call.fn = "agent_loop"
    /\ Len(steps) = max_iterations
    /\ Len(store) = max_iterations
    /\ EnvelopeReturned
    /\ br.success
    /\ br.blocks_created = max_iterations


\* ------------------------------------------------------------------ C30
BlocksReturned == call.fn = "create_blocks_tool" /\ ret.done
GivenObjects == Get(call.data, "rich_text_objects").v
GivenConfigs == Get(call.data, "blocks_config").v
ConfigTypeOf(block_config) == GetOr(block_config, "type", Str(<<"paragraph">>))

\* The call the claim is about: well-formed input holding rich text objects only
\* and a non-empty blocks_config whose types are block types.
ProperBlocksCall ==
    /\ call.wrap \in CleanWraps
    /\ GivenConfigs # <<>>
    /\ \A i \in 1..Len(GivenObjects) :
         GivenObjects[i].t = "seg" /\ GivenObjects[i].v.annotations # NoAnnotations
    /\ \A j \in 1..Len(GivenConfigs) : ConfigTypeOf(GivenConfigs[j]) # Str(<<"heading_x">>)

\* The rich text of the blocks, one block after the other.
RECURSIVE AllRichText(_)
AllRichText(blocks) ==
    IF blocks = <<>> THEN <<>> ELSE Head(blocks).rich_text \o AllRichText(Tail(blocks))

\* C30: create_blocks_tool loses and duplicates no content.  For every list of
\* rich text objects and every non-empty blocks_config it emits exactly
\* len(blocks_config) blocks in config order, every rich text object is in exactly
\* one emitted block, in the original order, and where there are more objects than
\* configs the groups are contiguous with sizes that differ by at most one.
C30_NoContentLostOrDuplicated ==
    (BlocksReturned /\ ProperBlocksCall) =>
        /\ ret.value.success
        /\ Len(ret.value.blocks) = Len(GivenConfigs)
        /\ \A j \in 1..Len(ret.value.blocks) :
             ConfigTypeOf(GivenConfigs[j]) \in {Str(<<"heading_2">>), Str(<<"to_do">>)}
                 => ret.value.blocks[j].type = ConfigTypeOf(GivenConfigs[j])
        /\ AllRichText(ret.value.blocks) = GivenObjects
        /\ Len(GivenObjects) > Len(GivenConfigs) =>
             \A i, j \in 1..Len(ret.value.blocks) :
                 Len(ret.value.blocks[i].rich_text) <= Len(ret.value.blocks[j].rich_text) + 1

====
